---- MODULE Spec2Model ----
(***************************************************************************)
(* Model of lib/storage/file.js (gcloud-node): the resumable upload state  *)
(* machine of File.prototype.startResumableUpload_, the integrity check of *)
(* createWriteStream, the integrity check of createReadStream, and the     *)
(* constructor, copy, move, delete, getSignedUrl and getSignedPolicy.      *)
(*                                                                         *)
(* Four specifications share the module; each leaves the variables of the  *)
(* other three at their initial values:                                    *)
(*   Spec       the resumable upload (session store, server, gates)        *)
(*   SpecWrite  createWriteStream's 'complete' handler                     *)
(*   SpecRead   createReadStream's construction and onComplete             *)
(*   SpecOps    the constructor and the calls of the other operations      *)
(***************************************************************************)
EXTENDS Integers, Sequences, FiniteSets, TLC

(***************************************************************************)
(* Bounds of the model.                                                    *)
(***************************************************************************)
\* longest payload, in bytes, that a producer writes
MaxLen == 17
\* most chunks the producer splits a payload into
MaxChunks == 2
\* a chunk is at most MaxShort bytes long, or FIRST_CHUNK_LEN bytes or more
MaxShort == 1
\* number of session URIs the server hands out before it only refuses
MaxSessions == 2
\* number of upload invocations for the same object name
MaxInvocations == 2
\* error responses the server gives over a run of several invocations (a
\* run of one invocation has RETRY_LIMIT + 1 of them, see Scenarios)
MaxFaults == 0

\* the second the clock readings of the signing calls fall in
MaxSecond == 2

(***************************************************************************)
(* Program constants.                                                      *)
(***************************************************************************)
\* file.js:1360
RETRY_LIMIT == 5
\* file.js:1458, chunk.slice(0, 16)
FIRST_CHUNK_LEN == 16
\* file.js:1544
RESUME_INCOMPLETE_STATUS == 308

\* file.js:1118, Date.now() / 1000
MsPerSecond == 1000

\* numBytesWritten when it is undefined (line 1358) or null (line 1576):
\* is.number() is false for both, and no other use tells them apart.
NotANumber == -2

(***************************************************************************)
(* Byte strings.                                                           *)
(***************************************************************************)
\* Buffer.prototype.slice(0, n)
Take(s, n) == SubSeq(s, 1, IF n < Len(s) THEN n ELSE Len(s))

\* Buffer.prototype.slice(k): an offset past the end yields the empty buffer
Drop(s, k) == IF k >= Len(s) THEN << >> ELSE SubSeq(s, k + 1, Len(s))

\* The payloads a producer may write: byte i is i, except in one position
\* that tells the variants apart.  Variant 0 is the reference payload,
\* variant 2 differs from it inside the first 16 bytes and variant 17 only
\* after them.
Variants == {0, 2, FIRST_CHUNK_LEN + 1}

PayloadOf(v, len) == [i \in 1..len |-> IF i = v THEN 100 + i ELSE i]

VARIABLES
  \* ---- the resumable upload -------------------------------------------
  configStore,      \* the ConfigStore record kept under that.name
  sessions,         \* server: bytes accepted per session URI, arrival order
  nextUri,          \* server: next session URI to hand out
  sessionBucket,    \* server: the bucket each session uploads to, 0: none yet
  pc,               \* the asynchronous step the invocation is waiting for
  config,           \* configStore.get(that.name), read once on entry
  thatBucket,       \* that.bucket.name of the File of this invocation
  numBytesWritten,
  resumableUri,
  retries,
  waitTime,         \* delay of the pending setTimeout(resumeUpload), ms; 0: none
  authOffset,       \* createUploadRequest's argument while it authorises
  payload,          \* what the producer writes during this invocation
  bufPos,           \* bytes bufferStream has emitted so far
  unshifted,        \* length of the chunk given back by unshift(), or 0
  chunksOut,        \* chunks the producer has written so far
  gate,             \* the offsetStream whose request awaits its response
  stalePiped,       \* offsetStreams still piped though their request is over
  metadata,         \* that.metadata
  invocationsLeft,  \* environment: invocations that may still begin
  faultsLeft,       \* environment: error responses the server may still give
  bucketCount,      \* environment: buckets holding an object of the name
  \* history of the current invocation
  divergences,      \* times the first-chunk comparison failed
  retryAttempts,    \* times handleError retried (404 restart or 5xx backoff)
  priorFed,         \* a payload byte was pushed to a request on config.uri
  sentUndiverged,   \* a payload byte was pushed before any divergence
  completes,        \* 'complete' events emitted
  emitted,          \* what each 'complete' event carried
  destroyed,        \* err.code of each stream.destroy(err)
  \* ---- createWriteStream ----------------------------------------------
  wpc,              \* where the write stream is in its life
  wValidation,      \* options.validation
  wFlags,           \* the crc32c and md5 variables of createWriteStream
  wHashStreams,     \* calls of hashStreamValidation()
  wData,            \* the bytes that went through validateStream
  wCorked,          \* stream.cork() is in force
  wMetadata,        \* the metadata the 'complete' event carried
  wFailed,          \* the handler's variable failed
  wDeletes,         \* self.delete() calls
  wError,           \* the error the stream was destroyed with
  wFinishes,        \* 'finish' events the stream emitted
  \* ---- createReadStream -----------------------------------------------
  rpc,              \* where the read stream is in its life
  rOptions,         \* options: start, end, validation
  rFlags,           \* the crc32c and md5 variables of createReadStream
  rRequests,        \* requests made by makeRequest
  rResponse,        \* the response: status, x-goog-hash, on-wire bytes
  rValidateStreams, \* calls of hashStreamValidation()
  rError,           \* the error createReadStream threw or destroyed with
  rPiped,           \* requestStream is piped into the stream returned
  rEvents,          \* what the stream returned has emitted, in order
  rAborts,          \* calls of requestStream.abort()
  \* ---- File, copy, move, delete, getSignedUrl, getSignedPolicy --------
  oObjects,         \* server: the objects that exist
  oHandle,          \* the File object: name and generation
  oOp,              \* the operation that was called
  oPc,              \* where the call is
  oGiven,           \* its argument as the caller passed it
  oOptions,         \* the options object as it is now
  oNow,             \* Date.now() as the call read it
  oIO,              \* credentials fetches and requests begun, in order
  oThrown,          \* message of the error the call threw
  oSigned,          \* what sign.update() was given
  oPolicy,          \* the policy object getSignedPolicy built
  oCallbacks        \* invocations of the caller's callback, in order

serverVars == <<sessions, nextUri, sessionBucket>>
controlVars == <<pc, config, thatBucket, numBytesWritten, resumableUri,
                 retries,
                 waitTime, authOffset>>
bufferVars == <<payload, bufPos, unshifted, chunksOut>>
envVars == <<invocationsLeft, faultsLeft, bucketCount>>
historyVars == <<divergences, retryAttempts, priorFed, sentUndiverged, completes,
                 emitted, destroyed>>

uploadVars == <<configStore, serverVars, controlVars, bufferVars, gate,
                stalePiped, metadata, envVars, historyVars>>

writeVars == <<wpc, wValidation, wFlags, wHashStreams, wData, wCorked,
               wMetadata, wFailed, wDeletes, wError, wFinishes>>

readVars == <<rpc, rOptions, rFlags, rRequests, rResponse, rValidateStreams,
              rError, rPiped, rEvents, rAborts>>

opVars == <<oObjects, oHandle, oOp, oPc, oGiven, oOptions, oNow, oIO, oThrown,
            oSigned, oPolicy, oCallbacks>>

vars == <<uploadVars, writeVars, readVars, opVars>>

(***************************************************************************)
(* JavaScript values of options.validation, options.start and options.end. *)
(***************************************************************************)
Undefined == [type |-> "undefined", bool |-> FALSE, str |-> ""]
Bool(b) == [type |-> "boolean", bool |-> b, str |-> ""]
Str(t) == [type |-> "string", bool |-> FALSE, str |-> t]

\* the values a caller passes as options.validation
ValidationOptions ==
  {Undefined, Bool(TRUE), Bool(FALSE), Str("md5"), Str("crc32c"), Str("MD5")}

\* is.string(value)
IsString(value) == value.type = "string"

\* String.prototype.toLowerCase on the strings above
ToLowerCase(t) ==
  CASE t = "MD5" -> "md5"
    [] t = "CRC32C" -> "crc32c"
    [] OTHER -> t

\* options.start or options.end left out, or set to the number n
NotSet == [isNumber |-> FALSE, n |-> 0]
Number(n) == [isNumber |-> TRUE, n |-> n]

(***************************************************************************)
(* Digests.  The bytes of the integrity checks are 0 and 1.  crc32c is the *)
(* weak digest (two byte strings may share it), md5 tells every two byte   *)
(* strings of the model apart.  A digest is a string of digits.            *)
(***************************************************************************)
\* longest byte string written to a write stream or read from the wire
MaxData == 2

DataStrings == UNION {[1..len -> {0, 1}] : len \in 0..MaxData}

RECURSIVE Sum(_)
Sum(s) == IF s = << >> THEN 0 ELSE Head(s) + Sum(Tail(s))

\* validateStream's crc32c digest of the bytes it has seen
Crc32cOf(data) == <<Sum(data) % 2>>

\* validateStream's md5 digest of the bytes it has seen
Md5Of(data) == <<Len(data)>> \o data

\* The crc32c string of the server: four characters the client cuts off,
\* then the digest (file.js:722-725, file.js:527-530).
Crc32cField(data) == <<9, 9, 9, 9>> \o Crc32cOf(data)

\* String.prototype.substr(4)
Substr4(t) == IF Len(t) <= 4 THEN << >> ELSE SubSeq(t, 5, Len(t))

\* a digest field the server left out
Absent == << >>

\* The crc32c and md5 strings a server may send: of any byte string, or none
Crc32cFields == {Absent} \cup {Crc32cField(d) : d \in DataStrings}
Md5Fields == {Absent} \cup {Md5Of(d) : d \in DataStrings}

(***************************************************************************)
(* Each specification leaves the streams of the other two unopened.        *)
(***************************************************************************)
NoFlags == [crc32c |-> FALSE, md5 |-> FALSE]
NoError == [code |-> "", errors |-> << >>]
NoMetadata == [crc32c |-> Absent, md5Hash |-> Absent]
NoResponse == [status |-> 0, hasHeader |-> FALSE, header |-> << >>, wire |-> << >>]

WriteIdle ==
  /\ wpc = "none"
  /\ wValidation = Undefined
  /\ wFlags = NoFlags
  /\ wHashStreams = 0
  /\ wData = << >>
  /\ wCorked = FALSE
  /\ wMetadata = NoMetadata
  /\ wFailed = FALSE
  /\ wDeletes = 0
  /\ wError = NoError
  /\ wFinishes = 0

ReadIdle ==
  /\ rpc = "none"
  /\ rOptions = [start |-> NotSet, end |-> NotSet, validation |-> Undefined]
  /\ rFlags = NoFlags
  /\ rRequests = 0
  /\ rResponse = NoResponse
  /\ rValidateStreams = 0
  /\ rError = NoError
  /\ rPiped = FALSE
  /\ rEvents = << >>
  /\ rAborts = 0

(***************************************************************************)
(* JavaScript values of the arguments of File, copy, getSignedUrl and      *)
(* getSignedPolicy.  A string is the sequence of its characters.           *)
(***************************************************************************)
JsUndefined == [t |-> "undefined", s |-> << >>, n |-> 0, items |-> << >>]
JsString(chars) == [t |-> "string", s |-> chars, n |-> 0, items |-> << >>]
JsNumber(n) == [t |-> "number", s |-> << >>, n |-> n, items |-> << >>]
JsArray(items) == [t |-> "array", s |-> << >>, n |-> 0, items |-> items]
\* an object with one property
JsObject(key, value) == [t |-> "object", s |-> key, n |-> 0, items |-> <<value>>]
\* { min: ..., max: ... }
JsRange(min, max) ==
  [t |-> "object", s |-> <<"min", "max">>, n |-> 0, items |-> <<min, max>>]
\* a Bucket object and a File object of a bucket
JsBucket(name) == [t |-> "Bucket", s |-> name, n |-> 0, items |-> << >>]
JsFile(bucket, name) ==
  [t |-> "File", s |-> name, n |-> 0, items |-> <<JsBucket(bucket)>>]

IsJsString(v) == v.t = "string"
IsJsNumber(v) == v.t = "number"
IsArray(v) == v.t = "array"

\* ToBoolean: undefined, '' and 0 are falsy, arrays and objects are not
Truthy(v) ==
  CASE v.t = "string" -> v.s # << >>
    [] v.t = "number" -> v.n # 0
    [] v.t = "undefined" -> FALSE
    [] OTHER -> TRUE

\* (v || '') for a string or undefined v
OrEmpty(v) == IF Truthy(v) THEN v.s ELSE << >>

\* The names of the bucket of the handle and of another bucket
BucketName == <<"b">>
OtherBucketName == <<"c">>

\* Object names: one of unreserved characters only, one with a slash and a
\* space
FileNames == {<<"o">>, <<"a", "/", "b", " ">>}

\* No File was constructed
NoHandle == [made |-> FALSE, bucket |-> << >>, name |-> << >>,
             generation |-> NotSet]

NoPolicy == [expiration |-> JsUndefined, conditions |-> << >>]

\* A callback argument that is null or left out
NoValue == JsUndefined

\* I/O the operations begin: a request of makeReq_, with the answer it got
\* once it has one, or a call of getCredentials.  A query is one parameter:
\* its key and its value, a number or (text) a string.
NoQuery == [key |-> "", value |-> 0, text |-> ""]
Request(method, path, query) ==
  [method |-> method, path |-> path, query |-> query, answer |-> "pending"]
GetCredentials == Request("getCredentials", << >>, NoQuery)

\* No File was constructed and no operation called; the objects of the
\* names above exist in the handle's bucket.
OpsIdle ==
  /\ oObjects = {[bucket |-> BucketName, name |-> name] : name \in FileNames}
  /\ oHandle = NoHandle
  /\ oOp = "none"
  /\ oPc = "idle"
  /\ oGiven = JsUndefined
  /\ oOptions = JsUndefined
  /\ oNow = 0
  /\ oIO = << >>
  /\ oThrown = ""
  /\ oSigned = << >>
  /\ oPolicy = NoPolicy
  /\ oCallbacks = << >>

\* No upload was begun: the state UploadInit would give, in a specification
\* of the streams alone.
UploadIdle ==
  /\ invocationsLeft = 0 /\ faultsLeft = 0 /\ bucketCount = 0
  /\ configStore = [has |-> FALSE, uri |-> 0, firstChunk |-> << >>]
  /\ sessions = << >>
  /\ nextUri = 1
  /\ sessionBucket = << >>
  /\ pc = "idle"
  /\ thatBucket = 0
  /\ config = [has |-> FALSE, uri |-> 0, firstChunk |-> << >>]
  /\ numBytesWritten = NotANumber
  /\ resumableUri = 0
  /\ retries = 0
  /\ waitTime = 0
  /\ authOffset = -1
  /\ payload = << >>
  /\ bufPos = 0
  /\ unshifted = 0
  /\ chunksOut = 0
  /\ gate = [uri |-> 0, offset |-> 0, bytesWritten |-> 0,
             ended |-> FALSE, started |-> FALSE, pushed |-> << >>]
  /\ stalePiped = 0
  /\ metadata = << >>
  /\ divergences = 0
  /\ retryAttempts = 0
  /\ priorFed = FALSE
  /\ sentUndiverged = FALSE
  /\ completes = 0
  /\ emitted = << >>
  /\ destroyed = << >>

(***************************************************************************)
(* The session store.                                                      *)
(***************************************************************************)
\* configStore.get(name) of a name that was never set, or was deleted
NoRecord == [has |-> FALSE, uri |-> 0, firstChunk |-> << >>]

\* configStore.set(name, {uri: uri}) and
\* configStore.set(name, {uri: uri, firstChunk: firstChunk}):
\* set() replaces the whole record.  An absent firstChunk is << >>.
Record(uri, firstChunk) == [has |-> TRUE, uri |-> uri, firstChunk |-> firstChunk]

\* config && config.firstChunk
CachedFirstChunk(cfg) == IF cfg.has THEN cfg.firstChunk ELSE << >>

\* is.number(numBytesWritten)
IsNumber(n) == n # NotANumber

(***************************************************************************)
(* offsetStream: the through() transform of sendFile, lines 1452-1505.     *)
(***************************************************************************)
\* No request is awaiting a response.
NoGate == [uri |-> 0, offset |-> 0, bytesWritten |-> 0,
           ended |-> FALSE, started |-> FALSE, pushed |-> << >>]

\* var bytesWritten = 0 and the request of sendFile
NewGate(uri, offset) ==
  [uri |-> uri, offset |-> offset, bytesWritten |-> 0,
   ended |-> FALSE,     \* the gate has ended the request body
   started |-> FALSE,   \* request() has put the request on the wire
   pushed |-> << >>]    \* history: what the gate has pushed, in order

\* The first-chunk comparison fails: a cached first chunk exists and differs
\* from chunk.slice(0, 16) of the first chunk this gate sees.
Diverges(g, chunk, cfg) ==
  /\ g.bytesWritten = 0
  /\ CachedFirstChunk(cfg) # << >>
  /\ CachedFirstChunk(cfg) # Take(chunk, FIRST_CHUNK_LEN)

\* The gate caches the first chunk: nothing was cached on entry.
CachesFirstChunk(g, cfg) ==
  /\ g.bytesWritten = 0
  /\ CachedFirstChunk(cfg) = << >>

\* What the gate would push without the slice of lines 1491-1493: the whole
\* of a chunk that reaches beyond the offset
ForwardedWholeChunk(g, chunk) ==
  IF g.bytesWritten + Len(chunk) > g.offset THEN chunk ELSE << >>

\* What the gate pushes to its request for one chunk (<< >>: nothing).
Forwarded(g, chunk) ==
  LET sliced == IF g.bytesWritten < g.offset
                THEN Drop(chunk, g.offset - g.bytesWritten)
                ELSE chunk
  IN IF g.bytesWritten + Len(chunk) > g.offset THEN sliced ELSE << >>

\* The gate after the transform has counted and pushed one chunk.
GateAfter(g, chunk) ==
  [g EXCEPT !.bytesWritten = g.bytesWritten + Len(chunk),
            !.started = g.started \/ Forwarded(g, chunk) # << >>,
            !.pushed = g.pushed \o Forwarded(g, chunk)]

(***************************************************************************)
(* The server of the resumable protocol.                                   *)
(***************************************************************************)
NoRange == -1

\* The healthy answer to a Probe of a session URI: 308, with
\* Range: 0-<last byte> when the session holds bytes and without Range when
\* it holds none.  A Probe of the undefined URI (no session was ever
\* started) fails in the transport, status 0.
ProbeAnswer(uri) ==
  IF uri = 0
  THEN [status |-> 0, range |-> NoRange]
  ELSE [status |-> RESUME_INCOMPLETE_STATUS,
        range |-> IF Len(sessions[uri]) > 0
                  THEN Len(sessions[uri]) - 1 ELSE NoRange]

\* Any other answer to a Probe: success, a vanished session, a server error
\* without a Range header, and a server error with one.
ProbeFaults ==
  {[status |-> st, range |-> NoRange] : st \in {200, 404, 503}}
    \cup {[status |-> 503, range |-> 0]}

\* Statuses of a failed request: a client error, a vanished session, a
\* server error.
ErrorCodes == {400, 404, 503}

(***************************************************************************)
(* startResumableUpload_                                                   *)
(***************************************************************************)
\* startUpload(), lines 1376-1401: the SessionStart POST is issued
startUpload == pc' = "post"

\* resumeUpload() as it would be without the test of line 1422: it asks the
\* server for the offset even when the offset is known
resumeUploadAlwaysProbes(n) == pc' = "probe" /\ UNCHANGED authOffset

\* resumeUpload() entered with numBytesWritten = n, lines 1421-1427
resumeUpload(n) ==
  IF IsNumber(n)
  THEN pc' = "auth" /\ authOffset' = n
  ELSE pc' = "probe" /\ UNCHANGED authOffset

\* getNumBytesWritten's callback as it would be without the status test of
\* line 1546
LastByteWrittenAnyStatus(response) ==
  IF response.range # NoRange THEN response.range ELSE -1

\* getNumBytesWritten's callback, lines 1543-1556
LastByteWritten(response) ==
  IF response.status = RESUME_INCOMPLETE_STATUS /\ response.range # NoRange
  THEN response.range
  ELSE -1

\* Math.round(Math.random() * 1000), line 1570: its least and greatest value
MaxRandomMs == 1000
RandomMs == {0, MaxRandomMs}

\* waitTime as it would be if computed after retries++
WaitTimeFromIncremented(n, randomMs) == 2^(n + 1) * MsPerSecond + randomMs

\* var waitTime = Math.pow(2, retries) * 1000 + randomMs, line 1571, with
\* retries = n
WaitTime(n, randomMs) == 2^n * MsPerSecond + randomMs

\* lines 1570-1571 and 1578: the timer is set with the waitTime computed
\* from retries as it is on entry to handleError
scheduleResume ==
  \E randomMs \in RandomMs : waitTime' = WaitTime(retries, randomMs)

\* handleError as it would be with the retry budget compared by <=
handleErrorOffByOne(code) ==
  IF code = 404 /\ retries <= RETRY_LIMIT
  THEN /\ retries' = retries + 1
       /\ retryAttempts' = retryAttempts + 1
       /\ startUpload
       /\ UNCHANGED <<numBytesWritten, destroyed, configStore, waitTime>>
  ELSE IF code > 499 /\ code < 600 /\ retries <= RETRY_LIMIT
  THEN /\ retries' = retries + 1
       /\ retryAttempts' = retryAttempts + 1
       /\ numBytesWritten' = NotANumber
       /\ pc' = "backoff"
       /\ scheduleResume
       /\ UNCHANGED <<destroyed, configStore>>
  ELSE /\ destroyed' = Append(destroyed, code)
       /\ pc' = "failed"
       /\ UNCHANGED <<retries, retryAttempts, numBytesWritten, configStore,
                      waitTime>>

\* handleError as it would be without line 1576: the offset known before the
\* server error is kept
handleErrorKeepsOffset(code) ==
  IF code = 404 /\ retries < RETRY_LIMIT
  THEN /\ retries' = retries + 1
       /\ retryAttempts' = retryAttempts + 1
       /\ startUpload
       /\ UNCHANGED <<numBytesWritten, destroyed, configStore, waitTime>>
  ELSE IF code > 499 /\ code < 600 /\ retries < RETRY_LIMIT
  THEN /\ retries' = retries + 1
       /\ retryAttempts' = retryAttempts + 1
       /\ pc' = "backoff"
       /\ scheduleResume
       /\ UNCHANGED <<numBytesWritten, destroyed, configStore>>
  ELSE /\ destroyed' = Append(destroyed, code)
       /\ pc' = "failed"
       /\ UNCHANGED <<retries, retryAttempts, numBytesWritten, configStore,
                      waitTime>>

\* handleError as it would be if a client error were retried like a server
\* error
handleErrorRetriesAll(code) ==
  IF code = 404 /\ retries < RETRY_LIMIT
  THEN /\ retries' = retries + 1
       /\ retryAttempts' = retryAttempts + 1
       /\ startUpload
       /\ UNCHANGED <<numBytesWritten, destroyed, configStore, waitTime>>
  ELSE IF retries < RETRY_LIMIT
  THEN /\ retries' = retries + 1
       /\ retryAttempts' = retryAttempts + 1
       /\ numBytesWritten' = NotANumber
       /\ pc' = "backoff"
       /\ scheduleResume
       /\ UNCHANGED <<destroyed, configStore>>
  ELSE /\ destroyed' = Append(destroyed, code)
       /\ pc' = "failed"
       /\ UNCHANGED <<retries, retryAttempts, numBytesWritten, configStore,
                      waitTime>>

\* handleError as it would be if the 404 branch deleted the persisted record
handleErrorForgetsSession(code) ==
  IF code = 404 /\ retries < RETRY_LIMIT
  THEN /\ retries' = retries + 1
       /\ retryAttempts' = retryAttempts + 1
       /\ configStore' = NoRecord
       /\ startUpload
       /\ UNCHANGED <<numBytesWritten, destroyed, waitTime>>
  ELSE IF code > 499 /\ code < 600 /\ retries < RETRY_LIMIT
  THEN /\ retries' = retries + 1
       /\ retryAttempts' = retryAttempts + 1
       /\ numBytesWritten' = NotANumber
       /\ pc' = "backoff"
       /\ scheduleResume
       /\ UNCHANGED <<destroyed, configStore>>
  ELSE /\ destroyed' = Append(destroyed, code)
       /\ pc' = "failed"
       /\ UNCHANGED <<retries, retryAttempts, numBytesWritten, configStore,
                      waitTime>>

\* handleError(err), lines 1561-1583
handleError(code) ==
  IF code = 404 /\ retries < RETRY_LIMIT
  THEN /\ retries' = retries + 1
       /\ retryAttempts' = retryAttempts + 1
       /\ startUpload
       /\ UNCHANGED <<numBytesWritten, destroyed, configStore, waitTime>>
  ELSE IF code > 499 /\ code < 600 /\ retries < RETRY_LIMIT
  THEN /\ retries' = retries + 1
       /\ retryAttempts' = retryAttempts + 1
       /\ numBytesWritten' = NotANumber
       /\ pc' = "backoff"
       /\ scheduleResume
       /\ UNCHANGED <<destroyed, configStore>>
  ELSE /\ destroyed' = Append(destroyed, code)
       /\ pc' = "failed"
       /\ UNCHANGED <<retries, retryAttempts, numBytesWritten, configStore,
                      waitTime>>

\* What the environment does in a run: several invocations on a server that
\* fails at most MaxFaults times; one invocation on a server that fails
\* until the retry budget is spent and once more; or an invocation and the
\* one that resumes it, on a server that fails once; or two invocations for
\* objects of the same name that may lie in two buckets, on a server that
\* never fails.
Buckets == {1, 2}
Scenarios ==
  {[invocations |-> MaxInvocations, faults |-> MaxFaults, buckets |-> 1],
   [invocations |-> 1, faults |-> RETRY_LIMIT + 1, buckets |-> 1],
   [invocations |-> 2, faults |-> 1, buckets |-> 1],
   [invocations |-> 2, faults |-> 0, buckets |-> 2]}

\* The payloads an invocation may write.  A payload is short or at least
\* FIRST_CHUNK_LEN bytes long; its bytes are only ever compared with a cached
\* first chunk, so without one the reference payload stands for all.
PayloadChoice(v, len) ==
  /\ v = 0 \/ CachedFirstChunk(configStore) # << >>
  /\ len <= MaxShort + 1 \/ len >= FIRST_CHUNK_LEN

UploadInit ==
  /\ \E sc \in Scenarios :
        /\ invocationsLeft = sc.invocations
        /\ faultsLeft = sc.faults
        /\ bucketCount = sc.buckets
  /\ configStore = NoRecord
  /\ sessions = [u \in 1..MaxSessions |-> << >>]
  /\ nextUri = 1
  /\ sessionBucket = [u \in 1..MaxSessions |-> 0]
  /\ pc = "idle"
  /\ thatBucket = 0
  /\ config = NoRecord
  /\ numBytesWritten = NotANumber
  /\ resumableUri = 0
  /\ retries = 0
  /\ waitTime = 0
  /\ authOffset = -1
  /\ payload = << >>
  /\ bufPos = 0
  /\ unshifted = 0
  /\ chunksOut = 0
  /\ gate = NoGate
  /\ stalePiped = 0
  /\ metadata = << >>
  /\ divergences = 0
  /\ retryAttempts = 0
  /\ priorFed = FALSE
  /\ sentUndiverged = FALSE
  /\ completes = 0
  /\ emitted = << >>
  /\ destroyed = << >>

\* The stream's 'writing' event calls startResumableUpload_: lines 1350-1373
Begin(v, len, b) ==
  /\ pc = "idle"
  /\ invocationsLeft > 0
  /\ b <= bucketCount
  /\ thatBucket' = b
  /\ PayloadChoice(v, len)
  /\ invocationsLeft' = invocationsLeft - 1
  /\ payload' = PayloadOf(v, len)
  /\ config' = configStore
  /\ retries' = 0
  /\ waitTime' = 0
  /\ numBytesWritten' = NotANumber
  /\ IF configStore.has
     THEN /\ resumableUri' = configStore.uri
          /\ resumeUpload(NotANumber)
     ELSE /\ resumableUri' = 0
          /\ startUpload
          /\ UNCHANGED authOffset
  /\ UNCHANGED <<configStore, serverVars, bufPos, unshifted, chunksOut, gate,
                 stalePiped, metadata, faultsLeft, bucketCount, historyVars>>
  /\ UNCHANGED <<writeVars, readVars, opVars>>

\* The SessionStart POST succeeds: lines 1407-1414
PostOk ==
  /\ pc = "post"
  /\ nextUri <= MaxSessions
  /\ nextUri' = nextUri + 1
  /\ numBytesWritten' = -1
  /\ resumableUri' = nextUri
  /\ configStore' = Record(nextUri, << >>)
  /\ sessionBucket' = [sessionBucket EXCEPT ![nextUri] = thatBucket]
  /\ resumeUpload(-1)
  /\ UNCHANGED <<sessions, config, thatBucket, retries, waitTime, bufferVars, gate,
                 stalePiped,
                 metadata, envVars, historyVars>>
  /\ UNCHANGED <<writeVars, readVars, opVars>>

\* The SessionStart POST fails: lines 1402-1405
PostErr(code) ==
  /\ pc = "post"
  /\ faultsLeft > 0
  /\ faultsLeft' = faultsLeft - 1
  /\ handleError(code)
  /\ UNCHANGED <<serverVars, config, thatBucket, resumableUri, authOffset,
                 bufferVars, gate, stalePiped, metadata, invocationsLeft, bucketCount,
                 divergences, priorFed, sentUndiverged, completes, emitted>>
  /\ UNCHANGED <<writeVars, readVars, opVars>>

\* createUploadRequest(offset), lines 1428-1442
createUploadRequest(offset) == pc' = "auth" /\ authOffset' = offset

\* The Probe is answered as a healthy server answers it
ProbeAnswered ==
  /\ pc = "probe"
  /\ createUploadRequest(LastByteWritten(ProbeAnswer(resumableUri)))
  /\ UNCHANGED <<configStore, serverVars, config, thatBucket, numBytesWritten,
                 resumableUri, retries, waitTime, bufferVars, gate, stalePiped,
                 metadata, envVars, historyVars>>
  /\ UNCHANGED <<writeVars, readVars, opVars>>

\* The Probe is answered otherwise
ProbeFailed(response) ==
  /\ pc = "probe"
  /\ faultsLeft > 0
  /\ faultsLeft' = faultsLeft - 1
  /\ createUploadRequest(LastByteWritten(response))
  /\ UNCHANGED <<configStore, serverVars, config, thatBucket, numBytesWritten,
                 resumableUri, retries, waitTime, bufferVars, gate, stalePiped,
                 metadata, invocationsLeft, bucketCount, historyVars>>
  /\ UNCHANGED <<writeVars, readVars, opVars>>

\* onAuthorized without error: sendFile(reqOpts, offset + 1), lines 1439,
\* 1447-1531: a new gate is piped from bufferStream and a new request made.
\* With resumableUri still undefined, request(reqOpts) raises
\* 'options.uri is a required argument' out of the callback: the upload is
\* over without the stream being destroyed.
AuthOk ==
  /\ pc = "auth"
  /\ IF resumableUri = 0
     THEN pc' = "crashed" /\ UNCHANGED gate
     ELSE /\ gate' = NewGate(resumableUri, authOffset + 1)
          /\ pc' = "transmit"
  /\ UNCHANGED <<configStore, serverVars, config, thatBucket, numBytesWritten,
                 resumableUri, retries, waitTime, authOffset, bufferVars,
                 stalePiped,
                 metadata, envVars, historyVars>>
  /\ UNCHANGED <<writeVars, readVars, opVars>>

\* onAuthorized with an error: lines 1434-1437
AuthErr(code) ==
  /\ pc = "auth"
  /\ faultsLeft > 0
  /\ faultsLeft' = faultsLeft - 1
  /\ handleError(code)
  /\ UNCHANGED <<serverVars, config, thatBucket, resumableUri, authOffset,
                 bufferVars, gate, stalePiped, metadata, invocationsLeft, bucketCount,
                 divergences, priorFed, sentUndiverged, completes, emitted>>
  /\ UNCHANGED <<writeVars, readVars, opVars>>

\* setTimeout(resumeUpload, waitTime) fires: line 1578
BackoffOver ==
  /\ pc = "backoff"
  /\ resumeUpload(numBytesWritten)
  /\ waitTime' = 0
  /\ UNCHANGED <<configStore, serverVars, config, thatBucket, numBytesWritten,
                 resumableUri, retries, bufferVars, gate, stalePiped,
                 metadata, envVars, historyVars>>
  /\ UNCHANGED <<writeVars, readVars, opVars>>

(***************************************************************************)
(* bufferStream and the gates piped from it.                               *)
(*                                                                         *)
(* sendFile pipes bufferStream into a new offsetStream each time and only  *)
(* the divergence branch ever unpipes one.  The gate of a request that was *)
(* answered with an error therefore stays piped: it has counted a chunk or *)
(* has ended by then (the request is put on the wire by the first push or  *)
(* by end), so its transform only counts bytes and pushes them to a        *)
(* request that is over.  stalePiped counts these gates; gate is the one   *)
(* whose request is still awaited.                                         *)
(***************************************************************************)
\* bufferStream has emitted all the producer wrote
Drained == bufPos = Len(payload) /\ unshifted = 0

\* bufferStream flows: it is piped into some gate that has not ended
Flowing == (pc = "transmit" /\ ~gate.ended) \/ stalePiped > 0

\* The lengths the next chunk out of bufferStream may have: the chunk given
\* back by unshift() if there is one; else what the producer writes next, the
\* whole rest when it is the last chunk the producer is allowed.
ChunkLengths ==
  LET rest == Len(payload) - bufPos
  IN IF unshifted # 0 THEN {unshifted}
     ELSE IF chunksOut + 1 >= MaxChunks THEN {rest} \ {0}
     ELSE {n \in 1..rest : n <= MaxShort \/ n >= FIRST_CHUNK_LEN}

\* bufferStream emits one chunk of n bytes to every gate it is piped into.
\* The awaited gate, lines 1452-1505:
\*   - caches the first chunk when none was cached on entry (1460-1465);
\*   - when the comparison fails, gives the chunk back, unpipes itself,
\*     deletes the record and calls startUpload (1472-1481);
\*   - otherwise counts the chunk and pushes what lies beyond its offset
\*     (1486-1504).
Deliver(n) ==
  /\ pc \in {"post", "probe", "auth", "backoff", "transmit"}
  /\ Flowing
  /\ n \in ChunkLengths
  /\ LET chunk == SubSeq(payload, bufPos + 1, bufPos + n)
         pushed == Forwarded(gate, chunk)
     IN IF pc = "transmit" /\ ~gate.ended
        THEN IF Diverges(gate, chunk, config)
             THEN /\ unshifted' = n
                  /\ gate' = NoGate
                  /\ configStore' = NoRecord
                  /\ divergences' = divergences + 1
                  /\ startUpload
                  /\ UNCHANGED <<bufPos, sessions, priorFed, sentUndiverged>>
             ELSE /\ configStore' = IF CachesFirstChunk(gate, config)
                                    THEN Record(gate.uri,
                                                Take(chunk, FIRST_CHUNK_LEN))
                                    ELSE configStore
                  /\ gate' = GateAfter(gate, chunk)
                  /\ sessions' = [sessions EXCEPT ![gate.uri] = @ \o pushed]
                  /\ priorFed' = (priorFed \/
                       (pushed # << >> /\ config.has /\ gate.uri = config.uri))
                  /\ sentUndiverged' = (sentUndiverged \/
                       (pushed # << >> /\ divergences = 0))
                  /\ bufPos' = bufPos + n
                  /\ unshifted' = 0
                  /\ UNCHANGED <<pc, divergences>>
        ELSE /\ bufPos' = bufPos + n
             /\ unshifted' = 0
             /\ UNCHANGED <<configStore, gate, sessions, priorFed,
                            sentUndiverged, pc, divergences>>
  /\ chunksOut' = IF unshifted = 0 THEN chunksOut + 1 ELSE chunksOut
  /\ UNCHANGED <<nextUri, sessionBucket, config, thatBucket,
                 numBytesWritten,
                 resumableUri, retries,
                 waitTime,
                 authOffset, payload, stalePiped, metadata, envVars,
                 retryAttempts, completes, emitted, destroyed>>
  /\ UNCHANGED <<writeVars, readVars, opVars>>

\* bufferStream has ended: the awaited gate ends, and with it the request
\* body
GateEnd ==
  /\ pc = "transmit"
  /\ ~gate.ended
  /\ Drained
  /\ gate' = [gate EXCEPT !.ended = TRUE, !.started = TRUE]
  /\ UNCHANGED <<configStore, serverVars, controlVars, bufferVars,
                 stalePiped, metadata, envVars, historyVars>>
  /\ UNCHANGED <<writeVars, readVars, opVars>>

\* The 'complete' handler as it would be without line 1525
emitCompleteKeepsRecord(data) ==
  /\ metadata' = data
  /\ completes' = completes + 1
  /\ emitted' = Append(emitted, metadata')
  /\ UNCHANGED configStore

\* The 'complete' handler past the error test, lines 1521-1525:
\* that.metadata = data; stream.emit('complete', that.metadata);
\* configStore.del(that.name)
emitComplete(data) ==
  /\ metadata' = data
  /\ completes' = completes + 1
  /\ emitted' = Append(emitted, metadata')
  /\ configStore' = NoRecord

\* writeStream 'complete' with a success status, lines 1514-1526: the server
\* has the whole request body and answers with the object it stored.
TransmitOk ==
  /\ pc = "transmit"
  /\ gate.started /\ gate.ended
  /\ gate' = NoGate
  /\ emitComplete(sessions[gate.uri])
  /\ pc' = "done"
  /\ UNCHANGED <<serverVars, config, thatBucket, numBytesWritten, resumableUri, retries,
                 waitTime,
                 authOffset, bufferVars, stalePiped, envVars, divergences,
                 retryAttempts, priorFed, sentUndiverged, destroyed>>
  /\ UNCHANGED <<writeVars, readVars, opVars>>

\* writeStream 'error', or 'complete' with an error status: lines 1510-1519.
\* The gate is not unpiped.
TransmitErr(code) ==
  /\ pc = "transmit"
  /\ gate.started
  /\ faultsLeft > 0
  /\ faultsLeft' = faultsLeft - 1
  /\ gate' = NoGate
  /\ stalePiped' = IF gate.ended THEN stalePiped ELSE stalePiped + 1
  /\ handleError(code)
  /\ UNCHANGED <<serverVars, config, thatBucket, resumableUri, authOffset,
                 bufferVars, metadata, invocationsLeft, bucketCount, divergences,
                 priorFed, sentUndiverged, completes, emitted>>
  /\ UNCHANGED <<writeVars, readVars, opVars>>

\* The process ends, with the upload finished, failed or under way.  The
\* session store and the server outlive it; a later process may upload to
\* the same object name.
ProcessExit ==
  /\ pc # "idle"
  /\ pc' = "idle"
  /\ config' = NoRecord
  /\ thatBucket' = 0
  /\ numBytesWritten' = NotANumber
  /\ resumableUri' = 0
  /\ retries' = 0
  /\ waitTime' = 0
  /\ authOffset' = -1
  /\ payload' = << >>
  /\ bufPos' = 0
  /\ unshifted' = 0
  /\ chunksOut' = 0
  /\ gate' = NoGate
  /\ stalePiped' = 0
  /\ metadata' = << >>
  /\ divergences' = 0
  /\ retryAttempts' = 0
  /\ priorFed' = FALSE
  /\ sentUndiverged' = FALSE
  /\ completes' = 0
  /\ emitted' = << >>
  /\ destroyed' = << >>
  /\ UNCHANGED <<configStore, serverVars, envVars>>
  /\ UNCHANGED <<writeVars, readVars, opVars>>

Next ==
  \/ \E v \in Variants, len \in 1..MaxLen, b \in Buckets : Begin(v, len, b)
  \/ PostOk
  \/ \E code \in ErrorCodes : PostErr(code)
  \/ ProbeAnswered
  \/ \E response \in ProbeFaults : ProbeFailed(response)
  \/ AuthOk
  \/ \E code \in ErrorCodes : AuthErr(code)
  \/ BackoffOver
  \/ \E n \in 1..MaxLen : Deliver(n)
  \/ GateEnd
  \/ TransmitOk
  \/ \E code \in ErrorCodes : TransmitErr(code)
  \/ ProcessExit

Init == UploadInit /\ WriteIdle /\ ReadIdle /\ OpsIdle

Spec == Init /\ [][Next]_vars

(***************************************************************************)
(* Properties of the resumable upload, checked under Spec.                 *)
(***************************************************************************)
\* C1: whenever a resumable upload has completed, the bytes the server
\* accepted for the completing session, in arrival order, are exactly the
\* producer's payload.
C1_CompletedSessionHoldsPayload == pc = "done" => metadata = payload

\* An upload that completed within one invocation, after one retry, with
\* an object that is not the payload.
C1_CompletedAfterRetryWithOtherBytes ==
  /\ pc = "done"
  /\ ~config.has
  /\ retryAttempts = 1
  /\ metadata # payload

\* The invocation began from a persisted record with a cached first chunk
\* and the first 16 bytes of its payload differ from that chunk.
BeganWithOtherFirstBytes ==
  /\ pc # "idle"
  /\ CachedFirstChunk(config) # << >>
  /\ Take(payload, FIRST_CHUNK_LEN) # CachedFirstChunk(config)

\* C2: in an upload that begins from a persisted record with a cached
\* firstChunk, when the first 16 bytes of the new payload differ from the
\* cached firstChunk, no payload byte is ever pushed to the request on the
\* prior session URI, and none before the divergence is detected.
C2_NoByteToPriorSession ==
  BeganWithOtherFirstBytes => ~priorFed /\ ~sentUndiverged

\* On a server that has answered every request successfully, the prior
\* session holds the first bytes of the earlier payload, the new payload has
\* another second byte, and bytes of the new payload went to the request on
\* the prior session URI.
C2_OtherPayloadFedToPriorSession ==
  /\ BeganWithOtherFirstBytes
  /\ faultsLeft = MaxFaults
  /\ Len(payload) >= 2
  /\ Len(sessions[config.uri]) >= 2
  /\ sessions[config.uri][2] # payload[2]
  /\ priorFed

\* C3: divergence is detected at most once per upload invocation (after it
\* the new session takes the whole payload from offset 0).
C3_DivergenceAtMostOnce == divergences <= 1

\* The second divergence of an invocation, on a server that has answered
\* every request of the run successfully.
C3_DivergedTwiceOnHealthyServer ==
  /\ divergences = 2
  /\ retryAttempts = 0
  /\ faultsLeft = MaxFaults
  /\ invocationsLeft = MaxInvocations - 2

\* C10: in every reachable state retries is an integer in 0..RETRY_LIMIT,
\* and the retries of one invocation (404 restarts and 5xx backoffs), which
\* share this one counter that is never reset, number at most RETRY_LIMIT.
C10_RetriesWithinLimit ==
  /\ retries \in 0..RETRY_LIMIT
  /\ retryAttempts = retries
  /\ retryAttempts <= RETRY_LIMIT

\* The retry budget is spent and one more error has ended the upload.
C10_BudgetSpent ==
  /\ retries = RETRY_LIMIT
  /\ retryAttempts = RETRY_LIMIT
  /\ pc = "failed"

\* Some request of the upload was answered with the error code and
\* handleError(err) ran on it.
ErrorHandled(code) == PostErr(code) \/ AuthErr(code) \/ TransmitErr(code)

\* handleError's tests: a vanished session, a server error
IsNotFound(code) == code = 404
IsServerError(code) == code > 499 /\ code < 600

C12_ServerErrorThenProbe ==
  [][/\ \A code \in ErrorCodes :
          (IsServerError(code) /\ retries < RETRY_LIMIT /\ ErrorHandled(code))
            => /\ retries' = retries + 1
               /\ numBytesWritten' = NotANumber
               /\ pc' = "backoff"
               /\ gate' = NoGate
               /\ UNCHANGED <<sessions, nextUri, resumableUri>>
     /\ pc = "backoff" =>
          /\ pc' \in {"backoff", "probe", "idle"}
          /\ gate' = NoGate
          /\ UNCHANGED <<sessions, nextUri>>
          /\ pc' # "idle" => UNCHANGED resumableUri
     /\ (pc = "probe" /\ pc' # "probe") =>
          \/ pc' = "idle"
          \/ /\ pc' = "auth"
             /\ \E response \in {ProbeAnswer(resumableUri)} \cup ProbeFaults :
                   authOffset' = LastByteWritten(response)
             /\ gate' = NoGate
             /\ UNCHANGED <<nextUri, resumableUri>>
     /\ (pc = "auth" /\ pc' = "transmit") =>
          /\ gate'.uri = resumableUri
          /\ gate'.offset = authOffset + 1
          /\ gate'.bytesWritten = 0]_vars

\* After a server error the Probe found bytes on the session and the
\* Transmit that followed was opened past them.
C12_TransmitResumedAtProbedOffset ==
  /\ pc = "transmit"
  /\ retries >= 1
  /\ numBytesWritten = NotANumber
  /\ nextUri = 2
  /\ gate.uri = 1
  /\ gate.offset >= 1
  /\ gate.offset = Len(sessions[1])

\* C13: an error that is neither 404 nor 5xx, and any error handled with
\* retries = RETRY_LIMIT, destroys the stream with that error and with no
\* other; from then on no request is awaited, no session is created and no
\* byte is sent until the process ends; the stream is never destroyed twice.
C13_TerminalErrorDestroysOnce ==
  [][/\ \A code \in ErrorCodes :
          (/\ ErrorHandled(code)
           /\ \/ ~IsNotFound(code) /\ ~IsServerError(code)
              \/ retries = RETRY_LIMIT)
            => /\ destroyed' = <<code>>
               /\ pc' = "failed"
               /\ gate' = NoGate
               /\ UNCHANGED <<retries, sessions, nextUri>>
     /\ pc = "failed" =>
          /\ Len(destroyed) = 1
          /\ pc' \in {"failed", "idle"}
          /\ pc' = "failed" => UNCHANGED <<destroyed, gate, sessions, nextUri>>
     /\ Len(destroyed') <= 1]_vars

\* The stream was destroyed with a server error once the budget was spent.
C13_DestroyedOnExhaustedBudget ==
  /\ pc = "failed"
  /\ destroyed = <<503>>
  /\ retries = RETRY_LIMIT

\* C14: a step after which the store holds no record for the object name,
\* having held one before, is a successful completion or a detected
\* divergence; a step that destroys the stream with an error, with retries
\* left or without, leaves the store as it was; and so does the end of the
\* process.
C14_RecordDeletedOnlyByCompletionOrDivergence ==
  [][/\ (configStore.has /\ ~configStore'.has) =>
          \/ completes' = completes + 1 /\ pc' = "done"
          \/ divergences' = divergences + 1
     /\ \A code \in ErrorCodes : ErrorHandled(code) => UNCHANGED configStore
     /\ Len(destroyed') > Len(destroyed) => UNCHANGED configStore
     /\ pc' = "idle" => UNCHANGED configStore]_vars

\* An upload ended by an error with the retry budget spent; the record of
\* its session is in the store.
C14_RecordSurvivesExhaustedBudget ==
  /\ pc = "failed"
  /\ retries = RETRY_LIMIT
  /\ Len(destroyed) = 1
  /\ configStore.has
  /\ configStore.uri = resumableUri

\* C15: the step in which the Transmit request completes successfully sets
\* metadata to the object the server stored, emits one 'complete' event
\* carrying that same value, and leaves the store without a record; the
\* store holds no record for as long as the upload stays completed.
C15_CompletionSetsMetadataEmitsAndForgets ==
  [][/\ (pc = "transmit" /\ pc' = "done") =>
          /\ metadata' = sessions[gate.uri]
          /\ completes' = completes + 1
          /\ emitted' = Append(emitted, metadata')
          /\ configStore' = NoRecord
     /\ pc' = "done" => configStore' = NoRecord
     /\ completes' # completes =>
          \/ pc = "transmit" /\ pc' = "done"
          \/ pc' = "idle"]_vars

\* An upload that found a record on entry has completed.
C15_ResumedUploadCompleted ==
  /\ pc = "done"
  /\ config.has
  /\ completes = 1
  /\ emitted = <<metadata>>
  /\ metadata # << >>
  /\ ~configStore.has

(***************************************************************************)
(* createWriteStream, lines 662-770.                                       *)
(***************************************************************************)
\* var crc32c, var md5: lines 674-681
WriteValidationFlags(validation) ==
  IF IsString(validation)
  THEN [crc32c |-> ToLowerCase(validation.str) = "crc32c",
        md5 |-> ToLowerCase(validation.str) = "md5"]
  ELSE [crc32c |-> validation # Bool(FALSE),
        md5 |-> validation # Bool(FALSE)]

\* The 'complete' handler's variable failed, lines 719-730, for the digests
\* validateStream took of data.
UploadFailed(flags, meta, data) ==
  LET afterCrc32c == IF flags.crc32c /\ meta.crc32c # Absent
                     THEN Substr4(meta.crc32c) # Crc32cOf(data)
                     ELSE TRUE
  IN IF flags.md5 /\ meta.md5Hash # Absent
     THEN meta.md5Hash # Md5Of(data)
     ELSE afterCrc32c

\* The error of a failed validation with the two codes taken for each other
UploadMismatchErrorSwapped(err) ==
  [code |-> IF err # "null" THEN "FILE_NO_UPLOAD" ELSE "FILE_NO_UPLOAD_DELETE",
   errors |-> <<err>>]

\* The error of a failed validation, lines 737-758; err is the error of the
\* delete, "null" when it succeeded.
UploadMismatchError(err) ==
  [code |-> IF err # "null" THEN "FILE_NO_UPLOAD_DELETE" ELSE "FILE_NO_UPLOAD",
   errors |-> <<err>>]

\* createWriteStream(options): lines 662-696
CreateWriteStream(validation) ==
  /\ wpc = "none"
  /\ wValidation' = validation
  /\ wFlags' = WriteValidationFlags(validation)
  /\ wHashStreams' = wHashStreams + 1
  /\ wpc' = "open"
  /\ UNCHANGED <<wData, wCorked, wMetadata, wFailed, wDeletes, wError,
                 wFinishes>>
  /\ UNCHANGED <<uploadVars, readVars, opVars>>

\* The producer writes data and ends the stream; the upload of lines 699-705
\* carries the bytes to the server.
WriteAndEnd(data) ==
  /\ wpc = "open"
  /\ wData' = data
  /\ wpc' = "written"
  /\ UNCHANGED <<wValidation, wFlags, wHashStreams, wCorked, wMetadata,
                 wFailed, wDeletes, wError, wFinishes>>
  /\ UNCHANGED <<uploadVars, readVars, opVars>>

\* fileWriteStream 'prefinish' as it would be without stream.cork(): the
\* stream finishes as soon as the producer has ended it
PrefinishWithoutCork ==
  /\ wpc = "written"
  /\ wFinishes' = wFinishes + 1
  /\ wpc' = "uploading"
  /\ UNCHANGED <<wValidation, wFlags, wHashStreams, wData, wCorked,
                 wMetadata, wFailed, wDeletes, wError>>
  /\ UNCHANGED <<uploadVars, readVars, opVars>>

\* fileWriteStream 'prefinish': lines 713-715
Prefinish ==
  /\ wpc = "written"
  /\ wCorked' = TRUE
  /\ wpc' = "uploading"
  /\ UNCHANGED <<wValidation, wFlags, wHashStreams, wData, wMetadata,
                 wFailed, wDeletes, wError, wFinishes>>
  /\ UNCHANGED <<uploadVars, readVars, opVars>>

\* fileWriteStream 'complete', lines 718-767: the upload is over and the
\* server has sent the object's metadata.
UploadComplete(meta) ==
  /\ wpc = "uploading"
  /\ wMetadata' = meta
  /\ wFailed' = UploadFailed(wFlags, meta, wData)
  /\ IF UploadFailed(wFlags, meta, wData)
     THEN /\ wDeletes' = wDeletes + 1
          /\ wpc' = "deleting"
          /\ UNCHANGED <<wCorked, wFinishes>>
     ELSE /\ wCorked' = FALSE
          /\ wFinishes' = wFinishes + 1
          /\ wpc' = "finished"
          /\ UNCHANGED wDeletes
  /\ UNCHANGED <<wValidation, wFlags, wHashStreams, wData, wError>>
  /\ UNCHANGED <<uploadVars, readVars, opVars>>

\* The upload fails: the stream is destroyed with the upload's error
UploadError ==
  /\ wpc = "uploading"
  /\ wError' = [code |-> "UPLOAD_ERROR", errors |-> << >>]
  /\ wpc' = "destroyed"
  /\ UNCHANGED <<wValidation, wFlags, wHashStreams, wData, wCorked,
                 wMetadata, wFailed, wDeletes, wFinishes>>
  /\ UNCHANGED <<uploadVars, readVars, opVars>>

\* The callback of self.delete(), lines 733-761
DeleteDone(err) ==
  /\ wpc = "deleting"
  /\ wError' = UploadMismatchError(err)
  /\ wpc' = "destroyed"
  /\ UNCHANGED <<wValidation, wFlags, wHashStreams, wData, wCorked,
                 wMetadata, wFailed, wDeletes, wFinishes>>
  /\ UNCHANGED <<uploadVars, readVars, opVars>>

NextWrite ==
  \/ \E validation \in ValidationOptions : CreateWriteStream(validation)
  \/ \E data \in DataStrings : WriteAndEnd(data)
  \/ Prefinish
  \/ \E crc32c \in Crc32cFields, md5Hash \in Md5Fields :
       UploadComplete([crc32c |-> crc32c, md5Hash |-> md5Hash])
  \/ UploadError
  \/ \E err \in {"null", "delete failed"} : DeleteDone(err)

InitWrite == UploadIdle /\ WriteIdle /\ ReadIdle /\ OpsIdle

SpecWrite == InitWrite /\ [][NextWrite]_vars

(***************************************************************************)
(* Properties of createWriteStream, checked under SpecWrite.               *)
(***************************************************************************)
\* The metadata carries a crc32c (an md5) that is not the digest of the
\* bytes written.
WrittenCrc32cDiffers ==
  wMetadata.crc32c # Absent /\ Substr4(wMetadata.crc32c) # Crc32cOf(wData)

WrittenMd5Differs ==
  wMetadata.md5Hash # Absent /\ wMetadata.md5Hash # Md5Of(wData)

\* C4: the write stream finishes only if every enabled digest that the
\* server's metadata carries matches the digest of the bytes written; with
\* both enabled, a crc32c mismatch fails the upload even when md5 matches.
C4_FinishOnlyIfDigestsMatch ==
  wpc = "finished" =>
    /\ wFlags.crc32c => ~WrittenCrc32cDiffers
    /\ wFlags.md5 => ~WrittenMd5Differs

\* The stream has finished with both digests enabled, a crc32c that differs
\* and an md5 that matches.
C4_FinishedOnCrc32cMismatch ==
  /\ wpc = "finished"
  /\ wFinishes = 1
  /\ wValidation = Undefined
  /\ WrittenCrc32cDiffers
  /\ wMetadata.md5Hash = Md5Of(wData)

\* C5: when the validation of an upload fails, exactly one delete of the
\* object is attempted, the stream never emits finish, and it is destroyed
\* with code FILE_NO_UPLOAD when the delete succeeded and
\* FILE_NO_UPLOAD_DELETE when it failed, the delete's error being the one
\* entry of the error's errors list.
C5_FailedValidationDeletesOnce ==
  wFailed =>
    /\ wDeletes = 1
    /\ wFinishes = 0
    /\ wpc \in {"deleting", "destroyed"}
    /\ wpc = "destroyed" =>
         /\ Len(wError.errors) = 1
         /\ wError.errors[1] = "null" => wError.code = "FILE_NO_UPLOAD"
         /\ wError.errors[1] # "null" => wError.code = "FILE_NO_UPLOAD_DELETE"

\* A crc32c mismatch failed the validation, the delete failed too and the
\* stream was destroyed.
C5_DestroyedAfterFailedDelete ==
  /\ wFailed
  /\ WrittenCrc32cDiffers
  /\ wDeletes = 1
  /\ wpc = "destroyed"
  /\ wError.errors = <<"delete failed">>

\* C6: an upload created with validation = false performs no integrity
\* check: once the server has reported completion the stream finishes, no
\* delete is issued and no FILE_NO_UPLOAD or FILE_NO_UPLOAD_DELETE error is
\* raised, whatever digests the metadata carries.  (The claim's other part,
\* that no hashing stream is instantiated, is left out of the formula: the
\* code always calls hashStreamValidation, with both digests off.)
C6_NoValidationNoCheck ==
  (wpc # "none" /\ wValidation = Bool(FALSE)) =>
    /\ wDeletes = 0
    /\ wpc # "deleting"
    /\ wError.code \notin {"FILE_NO_UPLOAD", "FILE_NO_UPLOAD_DELETE"}

\* An upload with validation = false whose object the server stored intact
\* was deleted and the stream destroyed with FILE_NO_UPLOAD.
C6_IntactUploadDeleted ==
  /\ wValidation = Bool(FALSE)
  /\ wMetadata = [crc32c |-> Crc32cField(wData), md5Hash |-> Md5Of(wData)]
  /\ wDeletes = 1
  /\ wError.code = "FILE_NO_UPLOAD"

(***************************************************************************)
(* createReadStream, lines 427-570.                                        *)
(***************************************************************************)
\* var crc32c, var md5 before the range check: lines 435-442
ReadValidationFlags(validation) ==
  IF IsString(validation)
  THEN [crc32c |-> ToLowerCase(validation.str) = "crc32c",
        md5 |-> ToLowerCase(validation.str) = "md5"]
  ELSE [crc32c |-> validation # Bool(FALSE),
        md5 |-> validation # Bool(FALSE)]

\* var rangeRequest: line 431
RangeRequest(options) == options.start.isNumber \/ options.end.isNumber

\* The condition of the throw without its test for true
RangeValidationErrorStringsOnly(options) ==
  /\ RangeRequest(options)
  /\ IsString(options.validation)

\* The condition of the throw, line 445 (validation is lower-cased by then,
\* and still a string)
RangeValidationError(options) ==
  /\ RangeRequest(options)
  /\ IsString(options.validation) \/ options.validation = Bool(TRUE)

\* hashes, lines 518-522: the x-goog-hash header is a list of name=value
\* entries and a later entry of a name overrides an earlier one.
ParseHashes(header) ==
  [name \in {"crc32c", "md5"} |->
     LET at == {i \in DOMAIN header : header[i].name = name}
     IN IF at = {} THEN Absent
        ELSE header[CHOOSE i \in at : \A j \in at : j <= i].value]

\* onComplete's variable failed, lines 524-535, for the digests
\* validateStream took of the on-wire bytes.
DownloadFailed(flags, hashes, wire) ==
  LET afterCrc32c == IF flags.crc32c /\ hashes.crc32c # Absent
                     THEN Substr4(hashes.crc32c) # Crc32cOf(wire)
                     ELSE TRUE
  IN IF flags.md5 /\ hashes.md5 # Absent
     THEN hashes.md5 # Md5Of(wire)
     ELSE afterCrc32c

\* the x-goog-hash headers a server may send
Headers ==
  {<< >>}
  \cup {<<[name |-> "crc32c", value |-> c]>> : c \in Crc32cFields \ {Absent}}
  \cup {<<[name |-> "md5", value |-> m]>> : m \in Md5Fields \ {Absent}}
  \cup {<<[name |-> "crc32c", value |-> c], [name |-> "md5", value |-> m]>> :
          c \in Crc32cFields \ {Absent}, m \in Md5Fields \ {Absent}}

\* createReadStream(options): lines 427-451, 567-569
CreateReadStream(start, end, validation) ==
  /\ rpc = "none"
  /\ LET options == [start |-> start, end |-> end, validation |-> validation]
     IN /\ rOptions' = options
        /\ IF RangeValidationError(options)
           THEN /\ rpc' = "threw"
                /\ rError' = [code |-> "Cannot use validation with file ranges",
                              errors |-> << >>]
                /\ UNCHANGED rFlags
           ELSE /\ rpc' = "constructed"
                /\ rFlags' = IF RangeRequest(options)
                             THEN [crc32c |-> FALSE, md5 |-> FALSE]
                             ELSE ReadValidationFlags(validation)
                /\ UNCHANGED rError
  /\ UNCHANGED <<rRequests, rResponse, rValidateStreams, rPiped, rEvents,
                 rAborts>>
  /\ UNCHANGED <<uploadVars, writeVars, opVars>>

\* An event of the stream returned: 'response' carries the response
Event(type) == [type |-> type, res |-> NoResponse]
ResponseEvent(res) == [type |-> "response", res |-> res]

\* The 'data' events among the events
DataEvents(events) == {i \in DOMAIN events : events[i].type = "data"}

\* throughStream 'reading': makeRequest, lines 455-479 and 549-564; the
\* request is made and requestStream piped into the stream returned
Reading ==
  /\ rpc = "constructed"
  /\ rRequests' = rRequests + 1
  /\ rPiped' = TRUE
  /\ rpc' = "requested"
  /\ UNCHANGED <<rOptions, rFlags, rResponse, rValidateStreams, rError,
                 rEvents, rAborts>>
  /\ UNCHANGED <<uploadVars, writeVars, opVars>>

\* The 'error' handler of the stream returned, lines 561-564
onStreamError == rAborts' = rAborts + 1

\* throughStream.destroy(err), through2: with an error the stream emits
\* 'error' and then 'close'; without one it emits 'close' only
destroy(hasError, err) ==
  /\ rError' = err
  /\ rpc' = "destroyed"
  /\ IF hasError
     THEN /\ rEvents' = rEvents \o <<Event("error"), Event("close")>>
          /\ onStreamError
     ELSE /\ rEvents' = Append(rEvents, Event("close"))
          /\ UNCHANGED rAborts

\* onResponse as it would be without the unpipe of its error branch
onResponseKeepsPipe(err) ==
  /\ rValidateStreams' = IF err \/ RangeRequest(rOptions) THEN rValidateStreams
                         ELSE rValidateStreams + 1
  /\ UNCHANGED rPiped

\* onResponse(err, body, res), lines 489-503
onResponse(err) ==
  IF err
  THEN rPiped' = FALSE /\ UNCHANGED rValidateStreams
  ELSE /\ rValidateStreams' = IF RangeRequest(rOptions) THEN rValidateStreams
                              ELSE rValidateStreams + 1
       /\ UNCHANGED rPiped

\* requestStream 'response' with a success status, lines 553-556 and
\* onResponse, lines 489-503.  The on-wire bytes go through validateStream
\* unless it is a range request.
ResponseOk(hasHeader, header, wire) ==
  /\ rpc = "requested"
  /\ rResponse' = [status |-> 200, hasHeader |-> hasHeader,
                   header |-> header, wire |-> wire]
  /\ rEvents' = Append(rEvents, ResponseEvent(rResponse'))
  /\ onResponse(FALSE)
  /\ rpc' = "responded"
  /\ UNCHANGED <<rOptions, rFlags, rRequests, rError, rAborts>>
  /\ UNCHANGED <<uploadVars, writeVars, opVars>>

\* requestStream 'response' with an error status, lines 553-556 and
\* onResponse, lines 490-493; wire is the body of the error response
ResponseErr(status, wire) ==
  /\ rpc = "requested"
  /\ rResponse' = [NoResponse EXCEPT !.status = status, !.wire = wire]
  /\ rEvents' = Append(rEvents, ResponseEvent(rResponse'))
  /\ onResponse(TRUE)
  /\ rpc' = "responded"
  /\ UNCHANGED <<rOptions, rFlags, rRequests, rError, rAborts>>
  /\ UNCHANGED <<uploadVars, writeVars, opVars>>

\* requestStream hands a byte of the body to the stream it is piped into,
\* line 560, and the consumer gets it
Data ==
  /\ rpc = "responded"
  /\ rPiped
  /\ Cardinality(DataEvents(rEvents)) < Len(rResponse.wire)
  /\ rEvents' = Append(rEvents, Event("data"))
  /\ UNCHANGED <<rpc, rOptions, rFlags, rRequests, rResponse,
                 rValidateStreams, rError, rPiped, rAborts>>
  /\ UNCHANGED <<uploadVars, writeVars, opVars>>

\* The body has gone where requestStream is piped
BodyOver ==
  ~rPiped \/ Cardinality(DataEvents(rEvents)) = Len(rResponse.wire)

\* requestStream 'error': lines 550-552
RequestError ==
  /\ rpc \in {"requested", "responded"}
  /\ destroy(TRUE, [code |-> "REQUEST_ERROR", errors |-> << >>])
  /\ UNCHANGED <<rOptions, rFlags, rRequests, rResponse, rValidateStreams,
                 rPiped>>
  /\ UNCHANGED <<uploadVars, writeVars, opVars>>

\* requestStream 'complete': onComplete, lines 508-547.  Without an
\* x-goog-hash header, line 519 raises a TypeError.
Complete ==
  /\ rpc = "responded"
  /\ BodyOver
  /\ IF rResponse.status # 200
     THEN destroy(TRUE, [code |-> "HTTP_ERROR", errors |-> << >>])
     ELSE IF RangeRequest(rOptions)
     THEN /\ rpc' = "ended"
          /\ rEvents' = Append(rEvents, Event("end"))
          /\ UNCHANGED <<rError, rAborts>>
     ELSE IF ~rResponse.hasHeader
     THEN /\ rError' = [code |-> "TypeError", errors |-> << >>]
          /\ rpc' = "crashed"
          /\ UNCHANGED <<rEvents, rAborts>>
     ELSE IF DownloadFailed(rFlags, ParseHashes(rResponse.header),
                            rResponse.wire)
     THEN destroy(TRUE, [code |-> "CONTENT_DOWNLOAD_MISMATCH",
                         errors |-> << >>])
     ELSE /\ rpc' = "ended"
          /\ rEvents' = Append(rEvents, Event("end"))
          /\ UNCHANGED <<rError, rAborts>>
  /\ UNCHANGED <<rOptions, rFlags, rRequests, rResponse, rValidateStreams,
                 rPiped>>
  /\ UNCHANGED <<uploadVars, writeVars, opVars>>

\* The consumer destroys the stream returned while the request is under
\* way, with an error or without one
ConsumerDestroy(hasError) ==
  /\ rpc \in {"requested", "responded"}
  /\ destroy(hasError, IF hasError
                       THEN [code |-> "CONSUMER_ERROR", errors |-> << >>]
                       ELSE NoError)
  /\ UNCHANGED <<rOptions, rFlags, rRequests, rResponse, rValidateStreams,
                 rPiped>>
  /\ UNCHANGED <<uploadVars, writeVars, opVars>>

\* the values a caller passes as options.start and options.end
StartOptions == {NotSet, Number(0), Number(2)}
EndOptions == {NotSet, Number(4), Number(-100)}

NextRead ==
  \/ \E start \in StartOptions, end \in EndOptions,
        validation \in ValidationOptions :
       CreateReadStream(start, end, validation)
  \/ Reading
  \/ \E header \in Headers, wire \in DataStrings :
       ResponseOk(TRUE, header, wire)
  \/ \E wire \in DataStrings : ResponseOk(FALSE, << >>, wire)
  \/ \E status \in {404, 503}, wire \in DataStrings : ResponseErr(status, wire)
  \/ Data
  \/ RequestError
  \/ Complete
  \/ \E hasError \in BOOLEAN : ConsumerDestroy(hasError)

InitRead == UploadIdle /\ WriteIdle /\ ReadIdle /\ OpsIdle

SpecRead == InitRead /\ [][NextRead]_vars

(***************************************************************************)
(* Properties of createReadStream, checked under SpecRead.                 *)
(***************************************************************************)
\* options.start or options.end is a number
IsRange == rOptions.start.isNumber \/ rOptions.end.isNumber

\* The digests options.validation asks for: both unless it is false or names
\* one of them.
AsksCrc32c ==
  rOptions.validation \in {Undefined, Bool(TRUE), Str("crc32c")}

AsksMd5 ==
  rOptions.validation \in {Undefined, Bool(TRUE), Str("md5"), Str("MD5")}

\* x-goog-hash carries a digest that was asked for and is not the digest of
\* the on-wire bytes.
ReadCrc32cDiffers ==
  LET crc32c == ParseHashes(rResponse.header).crc32c
  IN AsksCrc32c /\ crc32c # Absent /\ Substr4(crc32c) # Crc32cOf(rResponse.wire)

ReadMd5Differs ==
  LET md5 == ParseHashes(rResponse.header).md5
  IN AsksMd5 /\ md5 # Absent /\ md5 # Md5Of(rResponse.wire)

\* onComplete has decided about a successful response that has an
\* x-goog-hash header.
Decided ==
  /\ rResponse.status = 200
  /\ rResponse.hasHeader
  /\ \/ rpc = "ended"
     \/ rpc = "destroyed" /\ rError.code = "CONTENT_DOWNLOAD_MISMATCH"

\* C7: for a download without a range and with validation enabled, a digest
\* that was asked for, is in x-goog-hash and does not match destroys the
\* stream with CONTENT_DOWNLOAD_MISMATCH (a crc32c mismatch does even when
\* md5 matches); when every such digest matches, the stream ends normally.
C7_MismatchIffDigestDiffers ==
  (Decided /\ ~IsRange /\ rOptions.validation # Bool(FALSE)) =>
    IF ReadCrc32cDiffers \/ ReadMd5Differs
    THEN rpc = "destroyed" /\ rError.code = "CONTENT_DOWNLOAD_MISMATCH"
    ELSE rpc = "ended"

\* A default download ended normally though the crc32c of x-goog-hash
\* differs; its md5 matches.
C7_EndedOnCrc32cMismatch ==
  /\ Decided
  /\ rpc = "ended"
  /\ ~IsRange
  /\ rOptions.validation = Undefined
  /\ ReadCrc32cDiffers
  /\ ParseHashes(rResponse.header).md5 = Md5Of(rResponse.wire)

\* C8: a download is destroyed with CONTENT_DOWNLOAD_MISMATCH only if a
\* digest that was asked for is in x-goog-hash and differs: never for a
\* range request, for validation = false, or when the digest is absent.
C8_MismatchOnlyIfDigestDiffers ==
  rError.code = "CONTENT_DOWNLOAD_MISMATCH" =>
    /\ ~IsRange
    /\ rOptions.validation # Bool(FALSE)
    /\ ReadCrc32cDiffers \/ ReadMd5Differs

\* A download with validation = false whose bytes arrived intact, with both
\* digests of x-goog-hash matching, was destroyed with the mismatch code.
C8_MismatchWithoutValidation ==
  /\ rError.code = "CONTENT_DOWNLOAD_MISMATCH"
  /\ rOptions.validation = Bool(FALSE)
  /\ ParseHashes(rResponse.header) =
       [crc32c |-> Crc32cField(rResponse.wire), md5 |-> Md5Of(rResponse.wire)]

\* createReadStream has thrown 'Cannot use validation with file ranges',
\* before any request
ThrewAtConstruction == rpc = "threw" /\ rRequests = 0

\* C9 as stated: createReadStream called with start or end set and a
\* validation other than false ('md5', 'crc32c', true, or left at its
\* default) throws at construction, before any request is made.
C9_RangeWithValidationThrows ==
  (rpc # "none" /\ IsRange /\ rOptions.validation # Bool(FALSE)) =>
    ThrewAtConstruction

\* C9 as amended: createReadStream called with start or end set throws at
\* construction, before any request is made, exactly when validation is
\* given as a string or as true; with validation left out (or false) the
\* range stream is constructed with both integrity checks off.
C9_RangeWithExplicitValidationThrows ==
  rpc # "none" =>
    /\ rpc = "threw" <=>
         /\ IsRange
         /\ rOptions.validation.type = "string" \/ rOptions.validation = Bool(TRUE)
    /\ rpc = "threw" => rRequests = 0
    /\ (rpc # "threw" /\ IsRange) => rFlags = [crc32c |-> FALSE, md5 |-> FALSE]

\* A range stream asked for with validation: true has thrown.
C9_ThrewOnTrue ==
  /\ ThrewAtConstruction
  /\ rOptions.end.isNumber
  /\ rOptions.validation = Bool(TRUE)

(***************************************************************************)
(* The File constructor, lines 76-130.                                     *)
(***************************************************************************)
\* parseInt(options.generation, 10) for a number or undefined: NaN is NotSet
ParseInt(v) == IF IsJsNumber(v) THEN Number(v.n) ELSE NotSet

\* The names and generations a caller hands to the constructor
NameArguments ==
  {JsUndefined, JsString(<< >>)} \cup {JsString(name) : name \in FileNames}

GenerationArguments == {JsUndefined, JsNumber(0), JsNumber(1)}

\* new File(bucket, name, options), lines 76-91
NewFile(name, generation) ==
  /\ oPc = "idle"
  /\ ~oHandle.made
  /\ IF ~Truthy(name)
     THEN /\ oOp' = "File"
          /\ oPc' = "threw"
          /\ oThrown' = "A file name must be specified."
          /\ UNCHANGED oHandle
     ELSE /\ oHandle' = [made |-> TRUE, bucket |-> BucketName,
                         name |-> name.s, generation |-> ParseInt(generation)]
          /\ UNCHANGED <<oOp, oPc, oThrown>>
  /\ oGiven' = name
  /\ UNCHANGED <<oObjects, oOptions, oNow, oIO, oSigned, oPolicy, oCallbacks>>
  /\ UNCHANGED <<uploadVars, writeVars, readVars>>

(***************************************************************************)
(* Strings.                                                                *)
(***************************************************************************)
\* Number.prototype.toString of a non-negative integer
DecimalDigits == <<"0", "1", "2", "3", "4", "5", "6", "7", "8", "9">>

RECURSIVE NumberToString(_)
NumberToString(n) ==
  IF n < Len(DecimalDigits)
  THEN <<DecimalDigits[n + 1]>>
  ELSE NumberToString(n \div Len(DecimalDigits))
         \o <<DecimalDigits[(n % Len(DecimalDigits)) + 1]>>

\* encodeURIComponent of one character: the slash and the space are
\* reserved, the letters are not
Escape(c) ==
  CASE c = "/" -> <<"%", "2", "F">>
    [] c = " " -> <<"%", "2", "0">>
    [] OTHER -> <<c>>

RECURSIVE EncodeURIComponent(_)
EncodeURIComponent(chars) ==
  IF chars = << >>
  THEN << >>
  ELSE Escape(Head(chars)) \o EncodeURIComponent(Tail(chars))

\* What Array.prototype.join makes of one element: undefined becomes ''
JoinText(v) ==
  CASE IsJsString(v) -> v.s
    [] IsJsNumber(v) -> NumberToString(v.n)
    [] OTHER -> << >>

\* Array.prototype.join(separator) of a list of strings
RECURSIVE Join(_, _)
Join(parts, separator) ==
  IF parts = << >> THEN << >>
  ELSE IF Len(parts) = 1 THEN Head(parts)
  ELSE Head(parts) \o <<separator>> \o Join(Tail(parts), separator)

(***************************************************************************)
(* getSignedUrl, lines 1117-1178.                                          *)
(***************************************************************************)
\* expiration < Math.floor(Date.now() / 1000) with <= in the place of <
ExpirationNotInFuture(expiration, now) == expiration <= now \div MsPerSecond

\* expiration < Math.floor(Date.now() / 1000), lines 946 and 1118
ExpirationInPast(expiration, now) == expiration < now \div MsPerSecond

\* { read: 'GET', write: 'PUT', delete: 'DELETE' }[action], lines 1122-1126
VerbOf(action) ==
  CASE action = JsString(<<"read">>) -> JsString(<<"GET">>)
    [] action = JsString(<<"write">>) -> JsString(<<"PUT">>)
    [] action = JsString(<<"delete">>) -> JsString(<<"DELETE">>)
    [] OTHER -> JsUndefined

\* '/' + this.bucket.name + '/' + encodeURIComponent(this.name), 1128-1129
Resource(handle) ==
  <<"/">> \o handle.bucket \o <<"/">> \o EncodeURIComponent(handle.name)

\* The string to sign as it would be with the extension headers on a line
\* of their own
StringToSignSixLines(options) ==
  Join(<<JoinText(options.action),
         OrEmpty(options.contentMd5),
         OrEmpty(options.contentType),
         JoinText(options.expires),
         OrEmpty(options.extensionHeaders),
         options.resource.s>>, "\n")

\* The argument of sign.update, lines 1140-1147
StringToSign(options) ==
  Join(<<JoinText(options.action),
         OrEmpty(options.contentMd5),
         OrEmpty(options.contentType),
         JoinText(options.expires),
         OrEmpty(options.extensionHeaders) \o options.resource.s>>, "\n")

\* The query parameters after the signature, lines 1150-1167
ResponseContentType(options) ==
  IF IsJsString(options.responseType)
  THEN <<"&response-content-type=">>
         \o EncodeURIComponent(options.responseType.s)
  ELSE << >>

ResponseContentDisposition(options) ==
  IF IsJsString(options.responseDisposition)
  THEN <<"&response-content-disposition=">>
         \o EncodeURIComponent(options.responseDisposition.s)
  ELSE IF IsJsString(options.promptSaveAs)
  THEN <<"&response-content-disposition=attachment; filename=\"">>
         \o EncodeURIComponent(options.promptSaveAs.s) \o <<"\"">>
  ELSE << >>

\* The URL given to the callback, lines 1169-1176.  The signature stands
\* as the string that was signed: with one key, it is a function of it.
SignedUrl(options, signed) ==
  [base |-> <<"https://storage.googleapis.com">> \o options.resource.s,
   GoogleAccessId |-> "client_email",
   Expires |-> JoinText(options.expires),
   Signature |-> signed,
   response |-> ResponseContentType(options)
                  \o ResponseContentDisposition(options)]

\* The clock readings and the expiration times of a call: readings at the
\* first and at the last millisecond of one second; expirations the second
\* before, that second, the second after, and one of two digits.
NowChoices == {MaxSecond * MsPerSecond + ms : ms \in {0, MsPerSecond - 1}}

ExpirationChoices ==
  (MaxSecond - 1)..(MaxSecond + 1) \cup {Len(DecimalDigits) + MaxSecond}

OptionalStrings(chars) == {JsUndefined, JsString(chars)}

\* The response options of a signed URL: none, or a type and a file name
ResponseChoices ==
  {[responseType |-> JsUndefined, promptSaveAs |-> JsUndefined],
   [responseType |-> JsString(<<"r">>), promptSaveAs |-> JsString(<<"f", " ">>)]}

\* The options objects a caller hands to getSignedUrl
SignedUrlRequests ==
  {[action |-> JsString(<<action>>),
    contentMd5 |-> contentMd5,
    contentType |-> contentType,
    expires |-> JsNumber(expires),
    extensionHeaders |-> extensionHeaders,
    resource |-> JsUndefined,
    responseType |-> response.responseType,
    promptSaveAs |-> response.promptSaveAs,
    responseDisposition |-> JsUndefined] :
     action \in {"read", "write", "delete"},
     contentMd5 \in OptionalStrings(<<"m">>),
     contentType \in OptionalStrings(<<"t">>),
     expires \in ExpirationChoices,
     extensionHeaders \in OptionalStrings(<<"x", ":", "1", "\n">>),
     response \in ResponseChoices}

\* The body of getSignedUrl up to getCredentials, lines 1118-1133, called
\* with the object options at the clock reading now: options.action and
\* options.resource are assigned in the caller's object.
signUrl(options, now) ==
  IF ExpirationInPast(options.expires.n, now)
  THEN /\ oPc' = "threw"
       /\ oThrown' = "An expiration date cannot be in the past."
       /\ oOptions' = options
       /\ UNCHANGED oIO
  ELSE /\ oOptions' = [options EXCEPT
                         !.action = VerbOf(options.action),
                         !.resource = JsString(Resource(oHandle))]
       /\ oIO' = Append(oIO, GetCredentials)
       /\ oPc' = "credentials"
       /\ UNCHANGED oThrown

\* getSignedUrl(options, callback) up to getCredentials, lines 1117-1133
GetSignedUrl(options, now) ==
  /\ oPc = "idle"
  /\ oOp = "none"
  /\ oHandle.made
  /\ oOp' = "getSignedUrl"
  /\ oGiven' = options
  /\ oNow' = now
  /\ signUrl(options, now)
  /\ UNCHANGED <<oObjects, oHandle, oSigned, oPolicy, oCallbacks>>
  /\ UNCHANGED <<uploadVars, writeVars, readVars>>

\* The caller, given the URL, calls getSignedUrl once more with the same
\* options object, at the same clock reading: lines 1117-1133
GetSignedUrlAgain ==
  /\ oOp = "getSignedUrl"
  /\ oPc = "returned"
  /\ Len(oCallbacks) = 1
  /\ oCallbacks[1].err = ""
  /\ signUrl(oOptions, oNow)
  /\ UNCHANGED <<oObjects, oHandle, oOp, oGiven, oNow, oSigned, oPolicy,
                 oCallbacks>>
  /\ UNCHANGED <<uploadVars, writeVars, readVars>>

\* getCredentials calls back with an error, lines 1134-1137 and 1017-1020
CredentialsErr ==
  /\ oPc = "credentials"
  /\ oCallbacks' = Append(oCallbacks, [err |-> "credentials", value |-> NoValue])
  /\ oPc' = "returned"
  /\ UNCHANGED <<oObjects, oHandle, oOp, oGiven, oOptions, oNow, oIO, oThrown,
                 oSigned, oPolicy>>
  /\ UNCHANGED <<uploadVars, writeVars, readVars>>

\* getCredentials calls back with the credentials, lines 1139-1176
UrlSigned ==
  /\ oPc = "credentials"
  /\ oOp = "getSignedUrl"
  /\ oSigned' = StringToSign(oOptions)
  /\ oCallbacks' = Append(oCallbacks,
                          [err |-> "", value |-> SignedUrl(oOptions, oSigned')])
  /\ oPc' = "returned"
  /\ UNCHANGED <<oObjects, oHandle, oOp, oGiven, oOptions, oNow, oIO, oThrown,
                 oPolicy>>
  /\ UNCHANGED <<uploadVars, writeVars, readVars>>

(***************************************************************************)
(* getSignedPolicy, lines 945-1036.                                        *)
(***************************************************************************)
\* options.equals[0], undefined for an empty array
FirstItem(v) == IF v.items = << >> THEN JsUndefined ELSE v.items[1]

\* Lines 958-961 and 970-973: a one-dimensional array is wrapped in a list
Wrapped(v) == IF IsArray(v) /\ ~IsArray(FirstItem(v)) THEN JsArray(<<v>>) ELSE v

\* Lines 963 and 975
BadPair(condition) == ~IsArray(condition) \/ Len(condition.items) # 2

\* forEach reaches a condition that makes it throw
HasBadPair(v) ==
  IsArray(v) /\ \E i \in 1..Len(v.items) : BadPair(v.items[i])

\* Lines 962-967 and 974-979: one condition per pair, in the list's order
PairConditions(operator, v) ==
  IF IsArray(v)
  THEN [i \in 1..Len(v.items) |->
          JsArray(<<JsString(operator), v.items[i].items[1],
                    v.items[i].items[2]>>)]
  ELSE << >>

\* Lines 982-998: an optional that is truthy becomes an object
OptionalCondition(key, v) == IF Truthy(v) THEN <<JsObject(key, v)>> ELSE << >>

\* Lines 1000-1007
RangeCondition(range) ==
  IF Truthy(range)
  THEN <<JsArray(<<JsString(<<"content-length-range">>), range.items[1],
                   range.items[2]>>)>>
  ELSE << >>

\* Line 1003
BadRange(range) ==
  Truthy(range) /\ (~IsJsNumber(range.items[1]) \/ ~IsJsNumber(range.items[2]))

\* The conditions as they would be if startsWith were handled before equals
PolicyConditionsStartsWithFirst(handle, options) ==
  <<JsArray(<<JsString(<<"eq">>), JsString(<<"$key">>), JsString(handle.name)>>),
    JsObject(<<"bucket">>, JsString(handle.bucket))>>
    \o PairConditions(<<"starts-with">>, options.startsWith)
    \o PairConditions(<<"eq">>, options.equals)
    \o OptionalCondition(<<"acl">>, options.acl)
    \o OptionalCondition(<<"success_action_redirect">>, options.successRedirect)
    \o OptionalCondition(<<"success_action_status">>, options.successStatus)
    \o RangeCondition(options.contentLengthRange)

\* var conditions as line 1009 finds it, for options whose equals and
\* startsWith were wrapped: lines 951-1007
PolicyConditions(handle, options) ==
  <<JsArray(<<JsString(<<"eq">>), JsString(<<"$key">>), JsString(handle.name)>>),
    JsObject(<<"bucket">>, JsString(handle.bucket))>>
    \o PairConditions(<<"eq">>, options.equals)
    \o PairConditions(<<"starts-with">>, options.startsWith)
    \o OptionalCondition(<<"acl">>, options.acl)
    \o OptionalCondition(<<"success_action_redirect">>, options.successRedirect)
    \o OptionalCondition(<<"success_action_status">>, options.successStatus)
    \o RangeCondition(options.contentLengthRange)

\* options once equals, and once equals and startsWith, were wrapped
EqualsWrapped(options) == [options EXCEPT !.equals = Wrapped(@)]
BothWrapped(options) ==
  [EqualsWrapped(options) EXCEPT !.startsWith = Wrapped(@)]

\* The error as it would be if contentLengthRange were not looked at
PolicyErrorIgnoresRange(options, now) ==
  IF ExpirationInPast(options.expiration.n, now)
  THEN "An expiration date cannot be in the past."
  ELSE IF HasBadPair(EqualsWrapped(options).equals)
  THEN "Equals condition must be an array of 2 elements."
  ELSE IF HasBadPair(BothWrapped(options).startsWith)
  THEN "StartsWith condition must be an array of 2 elements."
  ELSE ""

\* The message of the error getSignedPolicy throws, '' when it throws
\* none: lines 946-948, 963-965, 975-977, 1003-1005, in this order
PolicyError(options, now) ==
  IF ExpirationInPast(options.expiration.n, now)
  THEN "An expiration date cannot be in the past."
  ELSE IF HasBadPair(EqualsWrapped(options).equals)
  THEN "Equals condition must be an array of 2 elements."
  ELSE IF HasBadPair(BothWrapped(options).startsWith)
  THEN "StartsWith condition must be an array of 2 elements."
  ELSE IF BadRange(options.contentLengthRange)
  THEN "ContentLengthRange must have numeric min & max fields."
  ELSE ""

\* The options object when the call throws or goes on to getCredentials
PolicyOptionsAfter(options, now) ==
  IF ExpirationInPast(options.expiration.n, now) THEN options
  ELSE IF HasBadPair(EqualsWrapped(options).equals) THEN EqualsWrapped(options)
  ELSE BothWrapped(options)

\* The values of options.equals and options.startsWith a caller passes
PairA == JsArray(<<JsString(<<"$", "a">>), JsString(<<"1">>)>>)
PairB == JsArray(<<JsString(<<"$", "b">>), JsString(<<"2">>)>>)
Triple == JsArray(<<JsString(<<"$", "a">>), JsString(<<"1">>), JsString(<<"2">>)>>)

EqualsArguments ==
  {JsUndefined, PairA, JsArray(<<PairA>>), JsArray(<<PairB, PairA>>),
   Triple, JsArray(<<PairA, Triple>>), JsArray(<< >>)}

StartsWithArguments ==
  {JsUndefined, PairB, JsArray(<<PairB, PairA>>),
   JsArray(<<PairB, JsString(<<"$", "a">>)>>)}

RangeArguments ==
  {JsUndefined, JsRange(JsNumber(0), JsNumber(1)),
   JsRange(JsUndefined, JsNumber(1)), JsRange(JsNumber(0), JsString(<<"1">>))}

\* The optionals of a policy: none, an empty acl, an acl and a status, or
\* all three
PolicyOptionals ==
  {[acl |-> JsUndefined, successRedirect |-> JsUndefined,
    successStatus |-> JsUndefined],
   [acl |-> JsString(<< >>), successRedirect |-> JsUndefined,
    successStatus |-> JsUndefined],
   [acl |-> JsString(<<"p">>), successRedirect |-> JsUndefined,
    successStatus |-> JsString(<<"2", "0", "1">>)],
   [acl |-> JsString(<<"p">>), successRedirect |-> JsString(<<"u">>),
    successStatus |-> JsString(<<"2", "0", "1">>)]}

\* The options objects a caller hands to getSignedPolicy
SignedPolicyRequests ==
  {[expiration |-> JsNumber(expiration),
    equals |-> equals,
    startsWith |-> startsWith,
    acl |-> optionals.acl,
    successRedirect |-> optionals.successRedirect,
    successStatus |-> optionals.successStatus,
    contentLengthRange |-> range] :
     expiration \in (MaxSecond - 1)..MaxSecond,
     equals \in EqualsArguments,
     startsWith \in StartsWithArguments,
     optionals \in PolicyOptionals,
     range \in RangeArguments}

\* getSignedPolicy(options, callback) up to getCredentials, lines 945-1016.
\* new Date(options.expiration).toISOString() stands as the number it is
\* made from.
GetSignedPolicy(options, now) ==
  /\ oPc = "idle"
  /\ oOp = "none"
  /\ oHandle.made
  /\ oOp' = "getSignedPolicy"
  /\ oGiven' = options
  /\ oNow' = now
  /\ oOptions' = PolicyOptionsAfter(options, now)
  /\ oThrown' = PolicyError(options, now)
  /\ IF oThrown' # ""
     THEN /\ oPc' = "threw"
          /\ UNCHANGED <<oIO, oPolicy>>
     ELSE /\ oPolicy' = [expiration |-> options.expiration,
                         conditions |-> PolicyConditions(oHandle, oOptions')]
          /\ oIO' = Append(oIO, GetCredentials)
          /\ oPc' = "credentials"
  /\ UNCHANGED <<oObjects, oHandle, oSigned, oCallbacks>>
  /\ UNCHANGED <<uploadVars, writeVars, readVars>>

\* new Buffer(JSON.stringify(policy)).toString('base64'), lines 1023-1024:
\* both encodings are one-to-one, the policy stands for its encoding
PolicyBase64(policy) == <<"base64", "json", policy>>

\* getCredentials calls back with the credentials, lines 1022-1034
PolicySigned ==
  /\ oPc = "credentials"
  /\ oOp = "getSignedPolicy"
  /\ oSigned' = PolicyBase64(oPolicy)
  /\ oCallbacks' = Append(oCallbacks,
                          [err |-> "",
                           value |-> [string |-> oPolicy,
                                      base64 |-> oSigned',
                                      signature |-> oSigned']])
  /\ oPc' = "returned"
  /\ UNCHANGED <<oObjects, oHandle, oOp, oGiven, oOptions, oNow, oIO, oThrown,
                 oPolicy>>
  /\ UNCHANGED <<uploadVars, writeVars, readVars>>

(***************************************************************************)
(* copy, move and delete: lines 203-251, 335-350, 784-803.                 *)
(***************************************************************************)
\* The object a handle names, and a File object of a bucket's object
ObjectOf(handle) == [bucket |-> handle.bucket, name |-> handle.name]

\* The destinations a caller passes to copy and move: none, an empty name,
\* a name, a Bucket, a File, and a number
Destinations ==
  {JsUndefined, JsString(<< >>), JsNumber(1), JsBucket(OtherBucketName)}
    \cup {JsString(name) : name \in FileNames}
    \cup {JsFile(OtherBucketName, name) : name \in FileNames}

\* Lines 216-229: the destination is a string, a Bucket or a File
Supported(destination) == destination.t \in {"string", "Bucket", "File"}

\* Lines 204-208 and 227-229: the message copy throws, '' when it throws none
DestinationError(destination) ==
  IF ~Truthy(destination) \/ ~Supported(destination)
  THEN "Destination file should have a name."
  ELSE ""

\* destBucket and destName, lines 216-226
CopyTarget(handle, destination) ==
  CASE destination.t = "string" ->
         [bucket |-> handle.bucket, name |-> destination.s]
    [] destination.t = "Bucket" ->
         [bucket |-> destination.s, name |-> handle.name]
    [] destination.t = "File" ->
         [bucket |-> destination.items[1].s, name |-> destination.s]

\* The parameter as it would be if every operation named it generation
GenerationQuerySameKey(key, handle) ==
  IF handle.generation.isNumber /\ handle.generation.n # 0
  THEN [key |-> "generation", value |-> handle.generation.n, text |-> ""]
  ELSE NoQuery

\* if (this.generation) query[key] = this.generation: lines 237-241,
\* 464-468, 789-793, 877-879, 1226-1228, 1397-1399, 1609-1611
GenerationQuery(key, handle) ==
  IF handle.generation.isNumber /\ handle.generation.n # 0
  THEN [key |-> key, value |-> handle.generation.n, text |-> ""]
  ELSE NoQuery

\* The request of copy, lines 231-243
CopyRequest(handle, destination) ==
  Request("POST",
          <<"/o/">> \o EncodeURIComponent(handle.name) \o <<"/copyTo/b/">>
            \o CopyTarget(handle, destination).bucket \o <<"/o/">>
            \o EncodeURIComponent(CopyTarget(handle, destination).name),
          GenerationQuery("sourceGeneration", handle))

\* The request of delete, lines 787-795
DeleteRequest(handle) ==
  Request("DELETE", <<"/o/">> \o EncodeURIComponent(handle.name),
          GenerationQuery("generation", handle))

\* The request that is awaited gets its answer
Answered(io, answer) == [io EXCEPT ![Len(io)].answer = answer]

\* copy(destination, callback) up to makeReq_, lines 203-243; move calls it
\* first thing, lines 335-340
Copy(op, destination) ==
  /\ oPc = "idle"
  /\ oOp = "none"
  /\ oHandle.made
  /\ oOp' = op
  /\ oGiven' = destination
  /\ oThrown' = DestinationError(destination)
  /\ IF oThrown' # ""
     THEN /\ oPc' = "threw"
          /\ UNCHANGED oIO
     ELSE /\ oIO' = Append(oIO, CopyRequest(oHandle, destination))
          /\ oPc' = "copying"
  /\ UNCHANGED <<oObjects, oHandle, oOptions, oNow, oSigned, oPolicy,
                 oCallbacks>>
  /\ UNCHANGED <<uploadVars, writeVars, readVars>>

\* move's callback of copy as it would be if it deleted the source whatever
\* copy answered
moveCopiedDeletesAnyway(err, destinationFile) ==
  /\ oIO' = Append(Answered(oIO, IF err = "" THEN "ok" ELSE "error"),
                   DeleteRequest(oHandle))
  /\ oPc' = "deleting"
  /\ UNCHANGED oCallbacks

\* move's callback of copy, lines 340-349
moveCopied(err, destinationFile) ==
  IF err # ""
  THEN /\ oCallbacks' = Append(oCallbacks, [err |-> err, value |-> NoValue])
       /\ oIO' = Answered(oIO, "error")
       /\ oPc' = "returned"
  ELSE /\ oIO' = Append(Answered(oIO, "ok"), DeleteRequest(oHandle))
       /\ oPc' = "deleting"
       /\ UNCHANGED oCallbacks

\* The callback copy was given: the caller's, or move's
copied(err, destinationFile) ==
  IF oOp = "move"
  THEN moveCopied(err, destinationFile)
  ELSE /\ oCallbacks' = Append(oCallbacks,
                               [err |-> err, value |-> destinationFile])
       /\ oIO' = Answered(oIO, IF err = "" THEN "ok" ELSE "error")
       /\ oPc' = "returned"

\* The copy request succeeds, lines 243-250: the server has made the
\* destination object
CopyOk ==
  /\ oPc = "copying"
  /\ ObjectOf(oHandle) \in oObjects
  /\ oObjects' = oObjects \cup {CopyTarget(oHandle, oGiven)}
  /\ copied("", CopyTarget(oHandle, oGiven))
  /\ UNCHANGED <<oHandle, oOp, oGiven, oOptions, oNow, oThrown, oSigned,
                 oPolicy>>
  /\ UNCHANGED <<uploadVars, writeVars, readVars>>

\* The copy request fails, lines 244-247
CopyErr ==
  /\ oPc = "copying"
  /\ copied("copy", NoValue)
  /\ UNCHANGED <<oObjects, oHandle, oOp, oGiven, oOptions, oNow, oThrown,
                 oSigned, oPolicy>>
  /\ UNCHANGED <<uploadVars, writeVars, readVars>>

\* delete(callback) up to makeReq_, lines 784-795
Delete ==
  /\ oPc = "idle"
  /\ oOp = "none"
  /\ oHandle.made
  /\ oOp' = "delete"
  /\ oIO' = Append(oIO, DeleteRequest(oHandle))
  /\ oPc' = "deleting"
  /\ UNCHANGED <<oObjects, oHandle, oGiven, oOptions, oNow, oThrown, oSigned,
                 oPolicy, oCallbacks>>
  /\ UNCHANGED <<uploadVars, writeVars, readVars>>

\* What the callback of delete's request hands on: to the caller of delete
\* (lines 795-802), or through move's function to the caller of move with
\* the destination file (lines 346-348)
deleted(err) ==
  oCallbacks' = Append(oCallbacks,
                       [err |-> err,
                        value |-> IF oOp = "move"
                                  THEN CopyTarget(oHandle, oGiven)
                                  ELSE NoValue])

\* The delete request succeeds: the server has removed the object
DeleteOk ==
  /\ oPc = "deleting"
  /\ oObjects' = oObjects \ {ObjectOf(oHandle)}
  /\ oIO' = Answered(oIO, "ok")
  /\ deleted("")
  /\ oPc' = "returned"
  /\ UNCHANGED <<oHandle, oOp, oGiven, oOptions, oNow, oThrown, oSigned,
                 oPolicy>>
  /\ UNCHANGED <<uploadVars, writeVars, readVars>>

\* The delete request fails
DeleteErr ==
  /\ oPc = "deleting"
  /\ oIO' = Answered(oIO, "error")
  /\ deleted("delete")
  /\ oPc' = "returned"
  /\ UNCHANGED <<oObjects, oHandle, oOp, oGiven, oOptions, oNow, oThrown,
                 oSigned, oPolicy>>
  /\ UNCHANGED <<uploadVars, writeVars, readVars>>

(***************************************************************************)
(* getMetadata, setMetadata, makePrivate, and the first request of a       *)
(* download and of an upload: lines 869-890, 1219-1240, 1266-1291,         *)
(* 455-479, 1376-1401, 1596-1622.                                          *)
(***************************************************************************)
\* The resources a server answers with
Resources == {<<1>>, <<2>>}

\* '/o/' + encodeURIComponent(this.name): lines 873, 1223, 1272
ObjectPath(handle) == <<"/o/">> \o EncodeURIComponent(handle.name)

\* { predefinedAcl: options.strict ? 'private' : 'projectPrivate' }, line 1273
PredefinedAclQuery(strict) ==
  [key |-> "predefinedAcl", value |-> 0,
   text |-> IF strict THEN "private" ELSE "projectPrivate"]

\* The requests of getMetadata (877-881), setMetadata (1226-1230) and
\* makePrivate (1272-1280)
GetMetadataRequest(handle) ==
  Request("GET", ObjectPath(handle), GenerationQuery("generation", handle))

SetMetadataRequest(handle) ==
  Request("PATCH", ObjectPath(handle), GenerationQuery("generation", handle))

MakePrivateRequest(handle, strict) ==
  Request("PATCH", ObjectPath(handle), PredefinedAclQuery(strict))

\* reqOpts of createReadStream's makeRequest, lines 456-468
ReadRequest(handle) ==
  Request("GET",
          <<"https://storage.googleapis.com/">> \o handle.bucket \o <<"/">>
            \o EncodeURIComponent(handle.name),
          GenerationQuery("generation", handle))

\* reqOpts of startUpload, lines 1383-1399: qs has name and uploadType, and
\* ifGenerationMatch when the handle has a generation
ResumableUploadRequest(handle) ==
  Request("POST",
          <<"upload/">> \o handle.bucket \o <<"/o", "?name=">> \o handle.name
            \o <<"&uploadType=resumable">>,
          GenerationQuery("ifGenerationMatch", handle))

\* reqOpts of startSimpleUpload_, lines 1599-1611, handed to
\* util.makeWritableStream
SimpleUploadRequest(handle) ==
  Request("makeWritableStream",
          <<"upload/">> \o handle.bucket \o <<"/o", "?name=">> \o handle.name,
          GenerationQuery("ifGenerationMatch", handle))

\* getMetadata(callback) up to makeReq_, lines 869-881
GetMetadata ==
  /\ oPc = "idle"
  /\ oOp = "none"
  /\ oHandle.made
  /\ oOp' = "getMetadata"
  /\ oIO' = Append(oIO, GetMetadataRequest(oHandle))
  /\ oPc' = "metadata"
  /\ UNCHANGED <<oObjects, oHandle, oGiven, oOptions, oNow, oThrown, oSigned,
                 oPolicy, oCallbacks>>
  /\ UNCHANGED <<uploadVars, writeVars, readVars>>

\* setMetadata(metadata, callback) up to makeReq_, lines 1219-1230
SetMetadata(given) ==
  /\ oPc = "idle"
  /\ oOp = "none"
  /\ oHandle.made
  /\ oOp' = "setMetadata"
  /\ oGiven' = given
  /\ oIO' = Append(oIO, SetMetadataRequest(oHandle))
  /\ oPc' = "metadata"
  /\ UNCHANGED <<oObjects, oHandle, oOptions, oNow, oThrown, oSigned,
                 oPolicy, oCallbacks>>
  /\ UNCHANGED <<uploadVars, writeVars, readVars>>

\* makePrivate(options, callback) up to makeReq_, lines 1266-1280, for an
\* options object with strict set or not
MakePrivate(strict) ==
  /\ oPc = "idle"
  /\ oOp = "none"
  /\ oHandle.made
  /\ oOp' = "makePrivate"
  /\ oGiven' = JsObject(<<"strict">>, JsNumber(IF strict THEN 1 ELSE 0))
  /\ oIO' = Append(oIO, MakePrivateRequest(oHandle, strict))
  /\ oPc' = "metadata"
  /\ UNCHANGED <<oObjects, oHandle, oOptions, oNow, oThrown, oSigned,
                 oPolicy, oCallbacks>>
  /\ UNCHANGED <<uploadVars, writeVars, readVars>>

\* The callback of makeReq_ as it would be without the return of its error
\* branch
metadataReceivedDespiteError(err, resp) ==
  /\ metadata' = resp
  /\ oCallbacks' =
       Append(oCallbacks,
              [err |-> err,
               value |-> IF oOp = "makePrivate" \/ err # ""
                         THEN << >> ELSE metadata'])

\* The callback of makeReq_ in getMetadata (881-889), setMetadata
\* (1230-1239) and makePrivate (1280-1290): makePrivate hands its callback
\* the error only
metadataReceived(err, resp) ==
  IF err # ""
  THEN /\ oCallbacks' = Append(oCallbacks, [err |-> err, value |-> << >>])
       /\ UNCHANGED metadata
  ELSE /\ metadata' = resp
       /\ oCallbacks' =
            Append(oCallbacks,
                   [err |-> "",
                    value |-> IF oOp = "makePrivate" THEN << >> ELSE metadata'])

\* The request of getMetadata, setMetadata or makePrivate succeeds
MetadataOk(resp) ==
  /\ oPc = "metadata"
  /\ oIO' = Answered(oIO, "ok")
  /\ metadataReceived("", resp)
  /\ oPc' = "returned"
  /\ UNCHANGED <<oObjects, oHandle, oOp, oGiven, oOptions, oNow, oThrown,
                 oSigned, oPolicy>>
  /\ UNCHANGED <<configStore, serverVars, controlVars, bufferVars, gate,
                 stalePiped, envVars, historyVars, writeVars, readVars>>

\* The request of getMetadata, setMetadata or makePrivate fails; resp is
\* the body of the error response
MetadataErr(resp) ==
  /\ oPc = "metadata"
  /\ oIO' = Answered(oIO, "error")
  /\ metadataReceived("request", resp)
  /\ oPc' = "returned"
  /\ UNCHANGED <<oObjects, oHandle, oOp, oGiven, oOptions, oNow, oThrown,
                 oSigned, oPolicy>>
  /\ UNCHANGED <<configStore, serverVars, controlVars, bufferVars, gate,
                 stalePiped, envVars, historyVars, writeVars, readVars>>

\* The consumer of a read stream asks for data: makeRequest, lines 455-479
MakeRequest ==
  /\ oPc = "idle"
  /\ oOp = "none"
  /\ oHandle.made
  /\ oOp' = "createReadStream"
  /\ oIO' = Append(oIO, ReadRequest(oHandle))
  /\ oPc' = "reading"
  /\ UNCHANGED <<oObjects, oHandle, oGiven, oOptions, oNow, oThrown, oSigned,
                 oPolicy, oCallbacks>>
  /\ UNCHANGED <<uploadVars, writeVars, readVars>>

\* The download is over, lines 508-547: the stream has ended or was
\* destroyed (what decides between the two is the subject of SpecRead)
ReadOver(answer) ==
  /\ oPc = "reading"
  /\ oIO' = Answered(oIO, answer)
  /\ oPc' = "returned"
  /\ UNCHANGED <<oObjects, oHandle, oOp, oGiven, oOptions, oNow, oThrown,
                 oSigned, oPolicy, oCallbacks>>
  /\ UNCHANGED <<uploadVars, writeVars, readVars>>

\* A write stream begins to write: startResumableUpload_ finds no record and
\* calls startUpload (lines 1372, 1376-1401), or startSimpleUpload_ hands
\* its request to util.makeWritableStream (lines 1596-1616)
StartUpload(op) ==
  /\ oPc = "idle"
  /\ oOp = "none"
  /\ oHandle.made
  /\ oOp' = op
  /\ oIO' = Append(oIO, IF op = "startResumableUpload_"
                        THEN ResumableUploadRequest(oHandle)
                        ELSE SimpleUploadRequest(oHandle))
  /\ oPc' = "uploading"
  /\ UNCHANGED <<oObjects, oHandle, oGiven, oOptions, oNow, oThrown, oSigned,
                 oPolicy, oCallbacks>>
  /\ UNCHANGED <<uploadVars, writeVars, readVars>>

\* The callback startSimpleUpload_ gives util.makeWritableStream, lines
\* 1617-1621: that.metadata = data; stream.emit('complete', data)
simpleUploadComplete(data) ==
  /\ metadata' = data
  /\ completes' = completes + 1
  /\ emitted' = Append(emitted, data)
  /\ UNCHANGED configStore

\* The upload completes and the server answers with the object it stored
\* (the requests a resumable upload makes after its first are the subject
\* of Spec)
UploadOk(data) ==
  /\ oPc = "uploading"
  /\ oIO' = Answered(oIO, "ok")
  /\ IF oOp = "startResumableUpload_"
     THEN emitComplete(data)
     ELSE simpleUploadComplete(data)
  /\ oPc' = "returned"
  /\ UNCHANGED <<oObjects, oHandle, oOp, oGiven, oOptions, oNow, oThrown,
                 oSigned, oPolicy, oCallbacks>>
  /\ UNCHANGED <<serverVars, controlVars, bufferVars, gate, stalePiped,
                 envVars, divergences, retryAttempts, priorFed,
                 sentUndiverged, destroyed, writeVars, readVars>>

\* The upload fails and the stream is destroyed with the error: line 1582
\* and util.makeWritableStream
UploadErr ==
  /\ oPc = "uploading"
  /\ oIO' = Answered(oIO, "error")
  /\ destroyed' = Append(destroyed, 400)
  /\ oPc' = "returned"
  /\ UNCHANGED <<oObjects, oHandle, oOp, oGiven, oOptions, oNow, oThrown,
                 oSigned, oPolicy, oCallbacks>>
  /\ UNCHANGED <<configStore, serverVars, controlVars, bufferVars, gate,
                 stalePiped, metadata, envVars, divergences, retryAttempts,
                 priorFed, sentUndiverged, completes, emitted, writeVars,
                 readVars>>

\* The operations that assign this.metadata
MetadataOperations ==
  {"getMetadata", "setMetadata", "makePrivate", "startSimpleUpload_",
   "startResumableUpload_"}

\* One of these operations is over and the caller is about to call the
\* handle again: what is kept is the handle, with its metadata, and the
\* server's objects.
Again ==
  /\ oPc = "returned"
  /\ oOp \in MetadataOperations
  /\ oOp' = "none"
  /\ oPc' = "idle"
  /\ oGiven' = JsUndefined
  /\ oIO' = << >>
  /\ oCallbacks' = << >>
  /\ completes' = 0
  /\ emitted' = << >>
  /\ destroyed' = << >>
  /\ UNCHANGED <<oObjects, oHandle, oOptions, oNow, oThrown, oSigned, oPolicy>>
  /\ UNCHANGED <<configStore, serverVars, controlVars, bufferVars, gate,
                 stalePiped, metadata, envVars, divergences, retryAttempts,
                 priorFed, sentUndiverged, writeVars, readVars>>

NextOps ==
  \/ \E name \in NameArguments, generation \in GenerationArguments :
        NewFile(name, generation)
  \/ \E options \in SignedUrlRequests, now \in NowChoices :
        GetSignedUrl(options, now)
  \/ GetSignedUrlAgain
  \/ UrlSigned
  \/ \E options \in SignedPolicyRequests, now \in NowChoices :
        GetSignedPolicy(options, now)
  \/ PolicySigned
  \/ CredentialsErr
  \/ \E op \in {"copy", "move"}, destination \in Destinations :
        Copy(op, destination)
  \/ CopyOk
  \/ CopyErr
  \/ Delete
  \/ DeleteOk
  \/ DeleteErr
  \/ GetMetadata
  \/ \E given \in Resources : SetMetadata(given)
  \/ \E strict \in BOOLEAN : MakePrivate(strict)
  \/ \E resp \in Resources : MetadataOk(resp)
  \/ \E resp \in Resources : MetadataErr(resp)
  \/ MakeRequest
  \/ \E answer \in {"ok", "error"} : ReadOver(answer)
  \/ \E op \in {"startResumableUpload_", "startSimpleUpload_"} : StartUpload(op)
  \/ \E data \in Resources : UploadOk(data)
  \/ UploadErr
  \/ Again

InitOps == UploadIdle /\ WriteIdle /\ ReadIdle /\ OpsIdle

SpecOps == InitOps /\ [][NextOps]_vars

(***************************************************************************)
(* Properties of the signing calls, of the constructor and of copy and     *)
(* move, checked under SpecOps.                                            *)
(***************************************************************************)
\* The Unix second of the clock reading of the call
CurrentSecond == oNow \div MsPerSecond

\* getSignedUrl was called and has thrown or gone on
UrlCalled == oOp = "getSignedUrl"

\* C16 as the specification states it: getSignedUrl accepts a request only
\* if its expires is strictly greater than the current Unix second.
C16_OnlyFutureExpiresAccepted ==
  (UrlCalled /\ oPc # "threw") => oGiven.expires.n > CurrentSecond

\* C16: getSignedUrl throws 'An expiration date cannot be in the past.',
\* before it fetches credentials, exactly when expires is less than the
\* current Unix second (the clock reading in milliseconds divided by 1000,
\* rounded down); a request whose expires equals the current second, or is
\* greater, is accepted.
C16_ExactlyPastExpiresRejected ==
  UrlCalled =>
    /\ oPc = "threw" <=> oGiven.expires.n < CurrentSecond
    /\ oPc = "threw" =>
         /\ oThrown = "An expiration date cannot be in the past."
         /\ oIO = << >>
         /\ oCallbacks = << >>

\* A URL was signed that expires in the second the clock read, late in
\* that second.
C16_SignedAtCurrentSecond ==
  /\ UrlCalled
  /\ oPc = "returned"
  /\ oGiven.expires.n = CurrentSecond
  /\ oNow % MsPerSecond # 0
  /\ Len(oCallbacks) = 1
  /\ oCallbacks[1].err = ""

\* An optional field of the request, empty when it was left out
FieldOrEmpty(v) == IF v = JsUndefined THEN << >> ELSE v.s

\* The HTTP verb of the action the caller asked for
VerbFor(action) ==
  CASE action = JsString(<<"read">>) -> <<"GET">>
    [] action = JsString(<<"write">>) -> <<"PUT">>
    [] action = JsString(<<"delete">>) -> <<"DELETE">>

PolicyBuilt == oOp = "getSignedPolicy" /\ oPc \in {"credentials", "returned"}

\* A value of equals or startsWith that is one pair, not a list of pairs
IsSinglePair(v) ==
  v # JsUndefined /\ v.items # << >> /\ v.items[1].t = "string"

\* The pairs of a value of equals or startsWith, in input order
PairsOf(v) ==
  IF v = JsUndefined THEN << >>
  ELSE IF IsSinglePair(v) THEN <<v>>
  ELSE v.items

\* One [operator, field, value] per pair
ConditionsFor(operator, pairs) ==
  [i \in 1..Len(pairs) |->
     JsArray(<<JsString(operator), pairs[i].items[1], pairs[i].items[2]>>)]

\* C18: the conditions of a signed policy are, in this order,
\* ["eq","$key",name], {bucket}, an "eq" condition per equals pair in input
\* order, a "starts-with" condition per startsWith pair in input order, then
\* acl, success_action_redirect, success_action_status and
\* content-length-range, each only if given; and a single pair passed as a
\* one-dimensional array gives the list that the same pair wrapped in a
\* list gives.
C18_ConditionsInOrder ==
  PolicyBuilt =>
    /\ oPolicy.conditions =
         <<JsArray(<<JsString(<<"eq">>), JsString(<<"$key">>),
                     JsString(oHandle.name)>>),
           JsObject(<<"bucket">>, JsString(oHandle.bucket))>>
           \o ConditionsFor(<<"eq">>, PairsOf(oGiven.equals))
           \o ConditionsFor(<<"starts-with">>, PairsOf(oGiven.startsWith))
           \o (IF Truthy(oGiven.acl)
               THEN <<JsObject(<<"acl">>, oGiven.acl)>> ELSE << >>)
           \o (IF Truthy(oGiven.successRedirect)
               THEN <<JsObject(<<"success_action_redirect">>,
                               oGiven.successRedirect)>>
               ELSE << >>)
           \o (IF Truthy(oGiven.successStatus)
               THEN <<JsObject(<<"success_action_status">>,
                               oGiven.successStatus)>>
               ELSE << >>)
           \o (IF oGiven.contentLengthRange # JsUndefined
               THEN <<JsArray(<<JsString(<<"content-length-range">>),
                                oGiven.contentLengthRange.items[1],
                                oGiven.contentLengthRange.items[2]>>)>>
               ELSE << >>)
    /\ IsSinglePair(oGiven.equals) =>
         oPolicy.conditions =
           PolicyConditions(oHandle,
             BothWrapped([oGiven EXCEPT !.equals = JsArray(<<@>>)]))
    /\ IsSinglePair(oGiven.startsWith) =>
         oPolicy.conditions =
           PolicyConditions(oHandle,
             BothWrapped([oGiven EXCEPT !.startsWith = JsArray(<<@>>)]))

\* A policy was signed whose equals was one pair in a one-dimensional
\* array, whose startsWith was a list of two pairs, and which had every
\* optional.
C18_SinglePairAndEveryOptional ==
  /\ PolicyBuilt
  /\ oPc = "returned"
  /\ oCallbacks[1].err = ""
  /\ IsSinglePair(oGiven.equals)
  /\ ~IsSinglePair(oGiven.startsWith)
  /\ Len(PairsOf(oGiven.startsWith)) = 2
  /\ Truthy(oGiven.acl)
  /\ Truthy(oGiven.successRedirect)
  /\ Truthy(oGiven.successStatus)
  /\ oGiven.contentLengthRange # JsUndefined
  /\ Len(oPolicy.conditions) = 9

\* A value of equals or startsWith with a pair whose length is not 2
HasPairOfOtherLength(v) ==
  /\ IsArray(v)
  /\ IF v.items = << >> \/ ~IsArray(v.items[1])
     THEN Len(v.items) # 2
     ELSE \E i \in 1..Len(v.items) :
            IsArray(v.items[i]) /\ Len(v.items[i].items) # 2

\* A contentLengthRange with a bound that is not a number
HasNonNumericBound(range) ==
  /\ range # JsUndefined
  /\ \E i \in 1..2 : range.items[i].t # "number"

\* C19: a call that throws has fetched no credentials, issued no request
\* and called no callback; and each of these calls throws: getSignedPolicy
\* with an expiration before the current second, with an equals or a
\* startsWith pair whose length is not 2, or with a contentLengthRange bound
\* that is not a number; getSignedUrl with an expires before the current
\* second; copy with no destination or with one that is neither a name, a
\* Bucket nor a File; and the constructor without a name, which makes no
\* handle.
C19_ValidationThrowsBeforeIO ==
  /\ oPc = "threw" =>
       /\ oThrown # ""
       /\ oIO = << >>
       /\ oCallbacks = << >>
  /\ (/\ oOp = "getSignedPolicy"
      /\ \/ oGiven.expiration.n < CurrentSecond
         \/ HasPairOfOtherLength(oGiven.equals)
         \/ HasPairOfOtherLength(oGiven.startsWith)
         \/ HasNonNumericBound(oGiven.contentLengthRange))
       => oPc = "threw"
  /\ (UrlCalled /\ oGiven.expires.n < CurrentSecond) => oPc = "threw"
  /\ (/\ oOp = "copy"
      /\ \/ oGiven \in {JsUndefined, JsString(<< >>)}
         \/ oGiven.t \notin {"string", "Bucket", "File"})
       => oPc = "threw"
  /\ oOp = "File" => oPc = "threw" /\ ~oHandle.made
  /\ oHandle.made => oHandle.name # << >>

\* getSignedPolicy threw at its last test, the one of contentLengthRange,
\* for a request that passed the tests before it; no credentials were
\* fetched.
C19_ThrewOnRangeBeforeCredentials ==
  /\ oOp = "getSignedPolicy"
  /\ oPc = "threw"
  /\ oThrown = "ContentLengthRange must have numeric min & max fields."
  /\ oGiven.equals # JsUndefined
  /\ oGiven.startsWith # JsUndefined
  /\ oIO = << >>

\* C20: in a move that has issued its copy request, the delete request is
\* issued only after the copy request was answered with success; when the
\* copy fails no delete is issued and the callback gets the copy error and
\* no destination; when the copy succeeds and the delete fails the callback
\* gets the delete error and the destination file, and source and
\* destination both exist; when both succeed it gets the destination file
\* and no error; the callback is called once when move is over and not
\* before.
C20_MoveDeletesOnlyAfterCopy ==
  (oOp = "move" /\ oPc # "threw") =>
    LET target == CopyTarget(oHandle, oGiven)
        copyAnswer == oIO[1].answer
        deleteAnswer == IF Len(oIO) = 2 THEN oIO[2].answer ELSE "none"
    IN /\ Len(oIO) \in 1..2
       /\ oIO[1].method = "POST"
       /\ Len(oIO) = 2 => (oIO[2].method = "DELETE" /\ copyAnswer = "ok")
       /\ copyAnswer = "error" =>
            /\ Len(oIO) = 1
            /\ oCallbacks = <<[err |-> "copy", value |-> NoValue]>>
       /\ deleteAnswer = "error" =>
            /\ oCallbacks = <<[err |-> "delete", value |-> target]>>
            /\ target \in oObjects
            /\ ObjectOf(oHandle) \in oObjects
       /\ deleteAnswer = "ok" =>
            oCallbacks = <<[err |-> "", value |-> target]>>
       /\ Len(oCallbacks) = (IF oPc = "returned" THEN 1 ELSE 0)
       /\ oPc = "returned" <=> "error" \in {copyAnswer, deleteAnswer}
                                 \/ deleteAnswer = "ok"

\* A move into another bucket whose copy succeeded and whose delete failed.
C20_DeleteFailedAfterCopy ==
  /\ oOp = "move"
  /\ oPc = "returned"
  /\ Len(oIO) = 2
  /\ oIO[2].answer = "error"
  /\ oGiven.t = "File"
  /\ CopyTarget(oHandle, oGiven) # ObjectOf(oHandle)
  /\ {CopyTarget(oHandle, oGiven), ObjectOf(oHandle)} \subseteq oObjects

\* The operations that act on the object of the handle
ScopedOperations ==
  {"createReadStream", "getMetadata", "setMetadata", "delete", "copy", "move",
   "startSimpleUpload_", "startResumableUpload_"}

\* The parameter that carries the generation in a request of an operation
GenerationParameter(op, method) ==
  CASE op \in {"createReadStream", "getMetadata", "setMetadata", "delete"} ->
         "generation"
    [] op = "copy" -> "sourceGeneration"
    [] op = "move" ->
         IF method = "POST" THEN "sourceGeneration" ELSE "generation"
    [] op \in {"startSimpleUpload_", "startResumableUpload_"} ->
         "ifGenerationMatch"

\* C21: when the handle has a generation (a positive integer), every
\* request of createReadStream, getMetadata, setMetadata and delete carries
\* generation, the request of copy (and of move's copy) sourceGeneration,
\* and the first request of a simple and of a resumable upload
\* ifGenerationMatch, each with the handle's generation as its value; when
\* the handle has no generation, none of these requests carries any of
\* these parameters.
C21_RequestsScopedToGeneration ==
  (oOp \in ScopedOperations /\ oPc # "threw") =>
    /\ oIO # << >>
    /\ \A i \in 1..Len(oIO) :
         /\ (oHandle.generation.isNumber /\ oHandle.generation.n > 0) =>
              oIO[i].query =
                [key |-> GenerationParameter(oOp, oIO[i].method),
                 value |-> oHandle.generation.n, text |-> ""]
         /\ ~oHandle.generation.isNumber =>
              oIO[i].query.key \notin
                {"generation", "sourceGeneration", "ifGenerationMatch"}

\* A move of a handle of generation 1 has sent its copy request with
\* sourceGeneration and its delete request with generation.
C21_MoveScopedBothRequests ==
  /\ oOp = "move"
  /\ oHandle.generation = Number(1)
  /\ Len(oIO) = 2
  /\ oIO[1].query.key = "sourceGeneration"
  /\ oIO[2].query.key = "generation"
  /\ oIO[2].query.value = 1

\* An operation's request was answered with an error (with success)
RequestFailed == oIO # << >> /\ oIO[Len(oIO)].answer = "error"
RequestSucceeded == oIO # << >> /\ oIO[Len(oIO)].answer = "ok"

\* C22: a step that changes the metadata of the handle is the step in which
\* a request of getMetadata, setMetadata or makePrivate is answered with
\* success or an upload completes, and the metadata becomes what the server
\* answered; the step in which a request of getMetadata, setMetadata,
\* makePrivate, copy, delete or move fails, and a call that throws, leave
\* the metadata as it was; and once the handle is made no step changes its
\* bucket, name or generation.
C22_MetadataSetOnlyOnSuccess ==
  [][/\ metadata' # metadata =>
          /\ oOp \in MetadataOperations
          /\ oIO' = Answered(oIO, "ok")
          /\ \E resp \in Resources :
                /\ metadata' = resp
                /\ MetadataOk(resp) \/ UploadOk(resp)
     /\ (oIO' # oIO /\ RequestFailed') => UNCHANGED metadata
     /\ oPc' = "threw" => UNCHANGED metadata
     /\ oHandle.made => UNCHANGED oHandle]_vars

\* The handle got its metadata from the server in an earlier call; the
\* setMetadata that followed has failed, and the metadata is what it was.
C22_FailedSetMetadataKeptMetadata ==
  /\ oOp = "setMetadata"
  /\ oPc = "returned"
  /\ RequestFailed
  /\ oCallbacks = <<[err |-> "request", value |-> << >>]>>
  /\ metadata \in Resources
  /\ metadata # oGiven

(***************************************************************************)
(* Properties of the stream createReadStream returns, checked under        *)
(* SpecRead.                                                               *)
(***************************************************************************)
\* The consumer has destroyed the stream after the request was made
DestroyedByConsumer ==
  /\ rpc = "destroyed"
  /\ rError.code \in {NoError.code, "CONSUMER_ERROR"}

\* C23: once the consumer has destroyed the stream returned by
\* createReadStream after the request was made, with an error or without
\* one, requestStream.abort() has been called.
C23_ConsumerDestroyAborts == DestroyedByConsumer => rAborts >= 1

\* The consumer has destroyed the stream without an error while the body
\* was arriving; the stream has emitted 'close' and the request was not
\* aborted.
C23_DestroyedWithoutErrorNotAborted ==
  /\ rpc = "destroyed"
  /\ rError = NoError
  /\ rRequests = 1
  /\ rResponse.status = 200
  /\ rEvents[Len(rEvents)] = Event("close")
  /\ \A i \in DOMAIN rEvents : rEvents[i].type # "error"
  /\ rAborts = 0

\* The response is an HTTP error
IsHttpError(res) == res.status \notin {NoResponse.status, 200}

\* C24: no request is made before the consumer first asks for data; that
\* step makes one request and no later step makes another; the first event
\* of a stream that has emitted data is 'response', carrying the server's
\* response with its headers; and when the response is an HTTP error no
\* data is emitted, the stream does not end normally, and the step in which
\* the request completes destroys the stream with the error of the
\* response.
C24_LazyRequestResponseBeforeData ==
  [][/\ rpc' \in {"none", "threw", "constructed"} => rRequests' = 0
     /\ rRequests' # rRequests =>
          /\ rpc = "constructed"
          /\ rpc' = "requested"
          /\ rRequests' = 1
     /\ (rpc' \notin {"none", "threw", "constructed"}) => rRequests' = 1
     /\ DataEvents(rEvents') # {} =>
          /\ rEvents'[1] = ResponseEvent(rResponse')
          /\ rResponse'.status = 200
     /\ Cardinality({i \in DOMAIN rEvents' : rEvents'[i].type = "response"}) <= 1
     /\ IsHttpError(rResponse') =>
          /\ DataEvents(rEvents') = {}
          /\ rpc' # "ended"
          /\ \A i \in DOMAIN rEvents' : rEvents'[i].type # "end"
     /\ (IsHttpError(rResponse) /\ rpc = "responded" /\ Complete) =>
          /\ rpc' = "destroyed"
          /\ rError'.code = "HTTP_ERROR"
          /\ rEvents' = rEvents \o <<Event("error"), Event("close")>>]_vars

\* A request answered with an HTTP error that had a body has completed:
\* the stream emitted 'response', no data, and was destroyed with the
\* error.
C24_HttpErrorBodyNotDelivered ==
  /\ rpc = "destroyed"
  /\ rError.code = "HTTP_ERROR"
  /\ rResponse.status = 404
  /\ rResponse.wire # << >>
  /\ rRequests = 1
  /\ rEvents = <<ResponseEvent(rResponse), Event("error"), Event("close")>>

(***************************************************************************)
(* Properties of the session record and the offset gate, checked under     *)
(* Spec.                                                                   *)
(***************************************************************************)
\* The step sends the SessionStart POST.
PostSent == pc # "post" /\ pc' = "post"

\* The step is the successful answer to the SessionStart POST.
PostAnswered == pc = "post" /\ nextUri' = nextUri + 1

\* C25: on entry to a resumable upload, if the session store holds a record
\* for the object name, the first request is a Probe against its uri, and a
\* SessionStart POST is sent later only by the handling of an error or by a
\* divergence; if no record exists the first request is the SessionStart
\* POST, whose success persists the record {uri} without firstChunk and
\* leads to a Transmit at offset 0 on the new uri, without a Probe.
C25_ProbeWithRecordPostWithout ==
  [][/\ (pc = "idle" /\ pc' # "idle") =>
          IF configStore.has
          THEN pc' = "probe" /\ resumableUri' = configStore.uri
          ELSE pc' = "post"
     /\ (PostSent /\ pc # "idle") =>
          \/ retryAttempts' = retryAttempts + 1
          \/ divergences' = divergences + 1
     /\ PostAnswered =>
          /\ configStore' = Record(nextUri, << >>)
          /\ resumableUri' = nextUri
          /\ pc' = "auth"
          /\ authOffset' = -1
     /\ (pc = "auth" /\ pc' = "transmit" /\ numBytesWritten = -1) =>
          /\ gate'.uri = resumableUri
          /\ gate'.offset = 0]_vars

\* An invocation that found a record has probed its session and transmits
\* to it past the bytes it holds; the only SessionStart POST the server ever
\* received is the one of the invocation that made the record.
C25_ResumedWithoutSessionStart ==
  /\ pc = "transmit"
  /\ config.has
  /\ gate.uri = config.uri
  /\ gate.offset = Len(sessions[config.uri])
  /\ gate.offset > 0
  /\ nextUri = 2
  /\ retryAttempts = 0
  /\ divergences = 0

\* C26: a Probe hands on the offset N exactly when its response is a 308
\* with a Range header 0-N, and -1 for a 308 without Range and for every
\* other response; in all cases it goes on to the authorized request that
\* opens Transmit with Content-Range 'bytes {offset + 1}-*/*', and it never
\* calls the error policy: no retry is counted, the stream is not destroyed
\* and the record is kept.
C26_ProbeOffsetOnlyFrom308WithRange ==
  [][/\ ProbeAnswered =>
          authOffset' = IF resumableUri # 0 /\ Len(sessions[resumableUri]) > 0
                        THEN Len(sessions[resumableUri]) - 1
                        ELSE -1
     /\ \A response \in ProbeFaults :
          ProbeFailed(response) => authOffset' = -1
     /\ (pc = "probe" /\ pc' \notin {"probe", "idle"}) =>
          /\ pc' = "auth"
          /\ UNCHANGED <<retries, retryAttempts, destroyed, configStore,
                         numBytesWritten, resumableUri>>
     /\ (pc = "auth" /\ pc' = "transmit") =>
          /\ gate'.uri = resumableUri
          /\ gate'.offset = authOffset + 1]_vars

\* The session of the record holds bytes, its Probe was answered otherwise
\* than by a 308 with Range, and Transmit was opened at offset 0 on the same
\* session without a retry being counted.
C26_FailedProbeOpenedTransmitAtZero ==
  /\ pc = "transmit"
  /\ config.has
  /\ gate.uri = config.uri
  /\ Len(sessions[gate.uri]) > 0
  /\ gate.offset = 0
  /\ gate.bytesWritten = 0
  /\ retries = 0
  /\ destroyed = << >>

\* The gate of the awaited request has seen the payload from its first
\* byte: it has counted every byte bufferStream has emitted.
FedFromFirstByte == pc = "transmit" /\ gate.bytesWritten = bufPos

\* C27: for every payload, every split of it into chunks and every offset
\* k >= 0, the gate of one Transmit that is fed the payload from its first
\* byte forwards exactly the payload's suffix starting at byte k, in order:
\* of the bytes fed so far it has pushed those from index k on, whatever the
\* chunk boundaries; it pushes nothing when k is at least the payload
\* length and never a byte of index below k.
C27_GateForwardsSuffixFromOffset ==
  FedFromFirstByte =>
    /\ gate.pushed = Drop(Take(payload, bufPos), gate.offset)
    /\ gate.offset >= Len(payload) => gate.pushed = << >>
    /\ \A i \in DOMAIN gate.pushed : gate.pushed[i] = payload[gate.offset + i]

\* The one chunk of a resumed payload reached beyond the offset of the
\* gate, which pushed the part of it from the offset on.
C27_StraddlingChunkSliced ==
  /\ FedFromFirstByte
  /\ chunksOut = 1
  /\ bufPos = Len(payload)
  /\ gate.offset > 0
  /\ gate.offset < bufPos
  /\ gate.pushed = Drop(payload, gate.offset)

\* C28: the firstChunk comparison is independent of chunk boundaries.  In
\* an invocation without retries, the first chunk cached is the payload's
\* first min(16, length) bytes even when the producer's first chunk is
\* shorter, and a payload whose first min(16, length) bytes are the cached
\* firstChunk is never judged divergent, however it is chunked.
C28_FirstChunkIndependentOfChunking ==
  /\ (/\ pc # "idle"
      /\ CachedFirstChunk(config) = << >>
      /\ CachedFirstChunk(configStore) # << >>
      /\ retryAttempts = 0
      /\ divergences = 0)
       => configStore.firstChunk = Take(payload, FIRST_CHUNK_LEN)
  /\ (/\ pc # "idle"
      /\ CachedFirstChunk(config) # << >>
      /\ CachedFirstChunk(config) = Take(payload, FIRST_CHUNK_LEN)
      /\ retryAttempts = 0)
       => divergences = 0

\* The payload begins with the 16 bytes cached and with all the bytes the
\* recorded session holds, it was delivered in a first chunk shorter than
\* 16 bytes, and the gate judged it divergent: the record is gone and the
\* chunk was given back.
C28_SamePayloadJudgedDivergent ==
  /\ pc = "post"
  /\ Len(CachedFirstChunk(config)) = FIRST_CHUNK_LEN
  /\ CachedFirstChunk(config) = Take(payload, FIRST_CHUNK_LEN)
  /\ sessions[config.uri] = Take(payload, Len(sessions[config.uri]))
  /\ unshifted > 0
  /\ unshifted < FIRST_CHUNK_LEN
  /\ divergences = 1
  /\ retryAttempts = 0
  /\ configStore = NoRecord

\* C29: in every reachable state, if the persisted record has no
\* firstChunk, the session at its uri has accepted no payload byte.
C29_NoFirstChunkNoBytesAccepted ==
  (configStore.has /\ configStore.firstChunk = << >>)
    => sessions[configStore.uri] = << >>

\* An invocation resumed from a record that carried a firstChunk was
\* answered 404 once and started a new session; the new session has
\* accepted payload bytes and its record has no firstChunk.
C29_RestartedSessionFedWithoutFirstChunk ==
  /\ pc = "transmit"
  /\ CachedFirstChunk(config) # << >>
  /\ retryAttempts = 1
  /\ divergences = 0
  /\ configStore = Record(gate.uri, << >>)
  /\ gate.uri # config.uri
  /\ sessions[gate.uri] # << >>

\* C30: in an invocation that started without a persisted record, whenever
\* the persisted record carries a firstChunk it is the first (at most 16)
\* bytes of the payload, never bytes from the middle of it, after any
\* sequence of 5xx and 404 retries.
C30_FirstChunkIsPayloadPrefix ==
  (/\ pc # "idle"
   /\ ~config.has
   /\ CachedFirstChunk(configStore) # << >>)
    => /\ Len(configStore.firstChunk) <= FIRST_CHUNK_LEN
       /\ configStore.firstChunk =
            Take(payload, Len(configStore.firstChunk))

\* An invocation that started without a record was answered 404 after the
\* first byte had gone out and started a new session; the firstChunk
\* persisted for it begins with the payload's second byte.
C30_FirstChunkFromMiddleOfPayload ==
  /\ pc = "transmit"
  /\ ~config.has
  /\ retryAttempts = 1
  /\ divergences = 0
  /\ configStore.has
  /\ configStore.uri = gate.uri
  /\ Len(payload) > FIRST_CHUNK_LEN
  /\ configStore.firstChunk = SubSeq(payload, 2, FIRST_CHUNK_LEN + 1)

(***************************************************************************)
(* Properties of the backoff, checked under Spec.                          *)
(***************************************************************************)
\* C31 as stated: on a 5xx error retries is incremented first and the delay
\* before the Probe is 2^retries seconds plus 0..1000 ms of the incremented
\* value, so the first retry waits between 2000 and 3000 ms.
C31_DelayFromIncrementedRetries ==
  pc = "backoff" =>
    /\ waitTime >= 2^retries * MsPerSecond
    /\ waitTime <= 2^retries * MsPerSecond + MaxRandomMs

\* C31: on a 5xx error the delay before the Probe is 2^r seconds plus
\* 0..1000 ms, r being retries before handleError increments it, so the
\* first retry of an invocation waits between 1000 and 2000 ms and the lower
\* bound doubles with each further retry; while the timer is pending
\* retries is already incremented.
C31_DelayFromRetriesBeforeIncrement ==
  pc = "backoff" =>
    /\ retries >= 1
    /\ waitTime >= 2^(retries - 1) * MsPerSecond
    /\ waitTime <= 2^(retries - 1) * MsPerSecond + MaxRandomMs

\* The timer of the first retry of an invocation is pending with a delay of
\* 1000 ms.
C31_FirstRetryWaitsOneSecond ==
  /\ pc = "backoff"
  /\ retries = 1
  /\ waitTime = MsPerSecond

(***************************************************************************)
(* Properties of the finish of the write stream, checked under SpecWrite.  *)
(***************************************************************************)
\* C32: the write stream never emits finish before the upload has emitted
\* complete and the complete handler's validation of the metadata has passed:
\* the stream is corked at prefinish, stays corked while the upload and a
\* delete are under way, and is uncorked, and finishes, only in the step
\* that handles complete with failed = false.
C32_FinishOnlyAfterCompleteAndValidation ==
  [][/\ (wpc = "written" /\ wpc' = "uploading") => wCorked' /\ wFinishes' = 0
     /\ wpc' \in {"uploading", "deleting"} => wCorked' /\ wFinishes' = 0
     /\ (wCorked /\ ~wCorked') =>
          /\ wpc = "uploading"
          /\ wpc' = "finished"
          /\ wFailed' = FALSE
          /\ ~UploadFailed(wFlags, wMetadata', wData)
     /\ wFinishes' # wFinishes =>
          /\ wFinishes' = 1
          /\ wCorked /\ ~wCorked'
     /\ wFailed' => wFinishes' = 0 /\ wpc' # "finished"
     /\ wError' # NoError => wFinishes' = 0]_vars

\* The stream was corked at prefinish, the upload completed with metadata
\* whose two digests are those of the bytes written, and the stream was
\* uncorked and finished once.
C32_FinishedAfterValidatedComplete ==
  /\ wpc = "finished"
  /\ wFinishes = 1
  /\ ~wCorked
  /\ ~wFailed
  /\ wFlags = [crc32c |-> TRUE, md5 |-> TRUE]
  /\ wData # << >>
  /\ wMetadata = [crc32c |-> Crc32cField(wData), md5Hash |-> Md5Of(wData)]

(***************************************************************************)
(* Termination of the resumable upload.                                    *)
(*                                                                         *)
(* SpecLive is Spec with the assumptions of the claim: every request is    *)
(* eventually answered, every timer fires, and the producer goes on        *)
(* writing and ends.  The errors a server gives and the end of the process *)
(* are not required to happen.                                             *)
(***************************************************************************)
Responsive ==
  /\ WF_vars(PostOk)
  /\ WF_vars(ProbeAnswered)
  /\ WF_vars(AuthOk)
  /\ WF_vars(BackoffOver)
  /\ WF_vars(\E n \in 1..MaxLen : Deliver(n))
  /\ WF_vars(GateEnd)
  /\ WF_vars(TransmitOk)

SpecLive == Init /\ [][Next]_vars /\ Responsive

\* The server of the model has given out all its session URIs and cannot
\* answer another SessionStart POST.
OutOfSessions == pc = "post" /\ nextUri > MaxSessions

\* C33: every resumable upload invocation eventually either emits complete
\* or destroys the write stream with an error, when the producer ends and
\* every request is answered (or the process ends first).
C33_UploadEventuallyEnds ==
  (pc # "idle") ~>
    (completes > 0 \/ destroyed # << >> \/ pc = "idle" \/ OutOfSessions)

\* The first SessionStart POST was answered with a server error and the
\* retry went on without a session URI: the upload is over, no complete was
\* emitted and the stream was not destroyed.
C33_EndedWithoutCompleteOrDestroy ==
  /\ pc = "crashed"
  /\ resumableUri = 0
  /\ retries = 1
  /\ completes = 0
  /\ destroyed = << >>

(***************************************************************************)
(* Properties of the pipes of bufferStream, checked under Spec.            *)
(***************************************************************************)
\* The gates bufferStream is piped into: those of requests that are over
\* and that never ended, and the one of the awaited request.
PipedGates ==
  stalePiped + (IF pc = "transmit" /\ ~gate.ended THEN 1 ELSE 0)

\* C34: at every moment of a resumable upload bufferStream is piped into at
\* most one gate, and so into at most one Transmit request: when a retry
\* has opened a new Transmit after a 404 or a 5xx, the gate of the failed
\* Transmit no longer receives producer bytes.
C34_AtMostOneGatePiped ==
  /\ ~Drained => PipedGates <= 1
  /\ (pc = "transmit" /\ retryAttempts > 0 /\ ~Drained) => stalePiped = 0

\* A Transmit failed after its gate had pushed a chunk, the retry opened a
\* new Transmit, and the producer's next chunk is about to go to both
\* gates.
C34_FailedGateStillPiped ==
  /\ pc = "transmit"
  /\ retryAttempts = 1
  /\ stalePiped = 1
  /\ ~gate.ended
  /\ gate.bytesWritten = 0
  /\ bufPos > 0
  /\ ~Drained

(***************************************************************************)
(* Properties of uploads to objects of one name in two buckets, checked    *)
(* under Spec.                                                             *)
(***************************************************************************)
\* The session of uri was created for an object of another bucket than the
\* one this invocation uploads to.
OfOtherBucket(uri) == uri # 0 /\ sessionBucket[uri] # thatBucket

\* C35: a resumable upload to an object in one bucket never probes or
\* transmits to a session URI that was created for an object in another
\* bucket, and never deletes the persisted record of that other object's
\* session, also when both objects have the same name and one upload was
\* interrupted.
C35_SessionsNotSharedAcrossBuckets ==
  [][/\ pc' \in {"probe", "auth", "transmit"} => ~OfOtherBucket(resumableUri)'
     /\ pc' = "transmit" => ~OfOtherBucket(gate.uri)'
     /\ (pc # "idle" /\ configStore.has /\ ~configStore'.has) =>
          ~OfOtherBucket(configStore.uri)]_vars

\* An upload to the object of bucket 2 found the record of the interrupted
\* upload to the object of the same name in bucket 1, sent its payload to
\* that session, completed there and deleted the record.
C35_CompletedOnSessionOfOtherBucket ==
  /\ pc = "done"
  /\ thatBucket = 2
  /\ config.has
  /\ sessionBucket[config.uri] = 1
  /\ resumableUri = config.uri
  /\ priorFed
  /\ completes = 1
  /\ ~configStore.has

(***************************************************************************)
(* Properties of repeated signing, checked under SpecOps.                  *)
(***************************************************************************)
\* getSignedUrl was called twice with one options object and each call gave
\* the callback a URL.
SignedTwice ==
  /\ oOp = "getSignedUrl"
  /\ Len(oCallbacks) = 2
  /\ oCallbacks[1].err = ""
  /\ oCallbacks[2].err = ""

\* C36: getSignedUrl is repeatable: two successive calls with the same
\* options object, credentials and clock reading sign the same string and
\* return the same URL; a call leaves the action of the caller's options as
\* it found it.
C36_SignedUrlRepeatable ==
  /\ SignedTwice => oCallbacks[2] = oCallbacks[1]
  /\ (oOp = "getSignedUrl" /\ oPc = "returned")
       => oOptions.action = oGiven.action

\* The first call signed a string that begins with the verb GET; the
\* second call, with the same options object, signed one that begins with
\* an empty line, and returned another URL.
C36_SecondUrlSignedWithoutVerb ==
  /\ SignedTwice
  /\ oGiven.action = JsString(<<"read">>)
  /\ oOptions.action = JsUndefined
  /\ Head(oCallbacks[1].value.Signature) = "GET"
  /\ Head(oCallbacks[2].value.Signature) = "\n"
  /\ oCallbacks[2].value.base = oCallbacks[1].value.base

====
